---------------------------- MODULE Spec2Model ----------------------------
(***************************************************************************)
(* A model of the inu-py device runtime and robotics controller.           *)
(*                                                                         *)
(*  SpecRobotics : Robotics.run / run_list / run_int_list / interrupt      *)
(*                 (src/src/inu/hardware/robotics/__init__.py)             *)
(*  SpecApp      : InuApp.parse_trigger_code and the RoboticsApp handlers  *)
(*                 (src/src/inu/app.py, src/apps/robotics/main.py)         *)
(*  SpecSettings : InuApp.on_settings_updated / on_disconnect              *)
(*  SpecOta      : InuApp.perform_ota_update / abort_ota                   *)
(*  SpecLoop     : the run loop of InuApp.run with the handlers            *)
(*  SpecRun      : the run loop alone, under the scheduling of asyncio     *)
(*  SpecActuator : Actuator.execute / drive                                *)
(*                 (src/src/inu/hardware/robotics/actuator.py)             *)
(*  SpecParser   : Robotics.control_from_string                            *)
(*  SpecStrip    : the APA102 strip and its driver                         *)
(*                 (src/src/apa102/__init__.py,                            *)
(*                  src/src/inu/hardware/robotics/apa102.py)               *)
(*  SpecSentry   : Sentry.on_hb / check_heartbeats                         *)
(*                 (src/src/sentry/__init__.py)                            *)
(*  SpecDevType  : get_device_type_from_id / get_device_settings_class     *)
(*                 (src/src/inu/schema/settings/__init__.py)               *)
(*  SpecHandlers : the robotics handlers interleaved at their awaits       *)
(*  SpecOtaCalls : InuApp.on_ota, one perform_ota_update per command       *)
(*  SpecSequence : one sequence at a time, under the scheduling of asyncio *)
(*  SpecBoot     : InuApp.run from init() to the loop                      *)
(*  SpecFrame    : the methods of the APA102 strip on its byte buffer      *)
(***************************************************************************)
EXTENDS Integers, Sequences, FiniteSets, Bags, TLC

VARIABLES
    \* ---- Robotics controller ----
    prog,             \* the parsed control list handed to Robotics.run
    stack,            \* call stack of run_list / run_int_list frames
    rpc,              \* "idle" | "running" | "done" | "error"
    active_device,    \* Robotics.active_device
    interrupted,      \* Robotics.interrupted
    allow_interrupt,  \* Robotics.allow_interrupt
    powered,          \* Robotics.powered
    devInt,           \* RoboticsDevice.interrupted, per device
    calls,            \* history: driver execute(ctrl, reverse) calls
    intCount,         \* history: number of accepted interrupts
    intMark,          \* history: where the first interrupt was accepted
    lastInt,          \* history: outcome of the latest interrupt() call
    left,             \* history: the device an earlier run left selected
    \* ---- Device runtime ----
    state,            \* Inu.state: [enabled, active, locked, status]
    allow_app_tick,   \* InuApp.allow_app_tick
    apc,              \* InuApp.run: "init" | "boot" | "running" | "tick" | "wait" |
                      \* "backoff" | "reset" | "crashed"
    tasks,            \* bag of handler coroutines suspended at an await
    ota,              \* perform_ota_update: [pc, snapshot]
    last,             \* history: the parse_trigger_code call made by the latest step
    alerted,          \* history: a sequence raised DeviceAlert and no enable command came since
    \* ---- Trigger consumers ----
    listen_subjects,          \* settings.listen_subjects, a string (sequence of characters)
    consumers,                \* the consumers that exist on the bus
    listen_device_consumers,  \* InuApp.listen_device_consumers
    next_name,                \* the next consumer name the bus hands out
    updates,                  \* number of on_settings_updated calls so far
    \* ---- OTA manager ----
    ota_version,      \* the version being applied
    ota_content,      \* response.content of the build download
    ota_index,        \* index into ota_content
    ota_files,        \* files written so far
    published,        \* the status last published on the bus
    ota_fail,         \* history: the first failure the update met ("" if none)
    \* ---- Actuator driver ----
    act,              \* Actuator.execute / drive: position in the code, fields and locals
    rig,              \* the PWM output, and history of the moves
    \* ---- Control strings ----
    parse,            \* a call of Robotics.control_from_string: [pc, ctrl, out]
    \* ---- LED strip ----
    led,              \* the Apa102 strip: buffer, selected segment, last call
    \* ---- Sentry ----
    sen,              \* the sentry: clock, device pool, check_heartbeats, alerts
    \* ---- Settings schema ----
    dev,              \* a call of get_device_type_from_id / get_device_settings_class
    \* ---- Bus adapter ----
    slots,            \* the number of handler calls the adapter keeps in flight
    otas,             \* the calls of perform_ota_update in flight, by OTA command
    boot              \* InuApp.init followed step by step: [pc, wifi, nats, has_settings]

roboRest == <<prog, stack, rpc, active_device, interrupted, allow_interrupt,
              devInt, calls, intCount, intMark, lastInt, left>>
roboVars == <<roboRest, powered>>
appVars == <<state, allow_app_tick, apc, tasks, ota, last, alerted>>
setVars == <<listen_subjects, consumers, listen_device_consumers, next_name, updates>>
otaVars == <<ota_version, ota_content, ota_index, ota_files, published, ota_fail>>
actVars == <<act, rig>>
parVars == <<parse>>
ledVars == <<led>>
senVars == <<sen>>
devVars == <<dev>>
cfgVars == <<slots, otas, boot>>

vars == <<roboVars, appVars, setVars, otaVars, actVars, parVars, ledVars, senVars, devVars, cfgVars>>

(***************************************************************************)
(* Bounds                                                                  *)
(***************************************************************************)
MaxLen == 3
MaxInterrupts == 2
MaxTasks == 1
MaxSubjLen == 3
MaxUpdates == 3
MaxVersion == 2
MaxFiles == 1
MaxTick == 2
MaxMoves == 2
MaxArgs == 5

(***************************************************************************)
(* Controls                                                                *)
(***************************************************************************)
NoDev == "none"
Devices == {"A0", "L0"}

\* The devices registered with the controller and their driver variant.
DriverOf(d) == IF d = "A0" THEN "Actuator" ELSE "Apa102"

NoCtrl == [op |-> "NONE", dev |-> NoDev, int |-> FALSE, idx |-> 0]

Alphabet ==
    {[op |-> "SEL", dev |-> d, int |-> FALSE, idx |-> 0] : d \in Devices}
    \cup {[op |-> o, dev |-> NoDev, int |-> b, idx |-> 0] :
            o \in {"WAIT", "MV", "COL"}, b \in BOOLEAN}

Tag(c, i) == [c EXCEPT !.idx = i]

Sel(d) == [op |-> "SEL", dev |-> d, int |-> FALSE, idx |-> 0]
Ctl(o, b) == [op |-> o, dev |-> NoDev, int |-> b, idx |-> 0]
Tagged(sq) == [i \in 1..Len(sq) |-> Tag(sq[i], i)]

\* "SEL A0; MV 800 300; W 2000 INT; MV -800 150 INT" (the Control docstring)
\* and an interruptible sequence that drives two devices.
ExamplePrograms ==
    {Tagged(<<Sel("A0"), Ctl("MV", FALSE), Ctl("WAIT", TRUE), Ctl("MV", TRUE)>>),
     Tagged(<<Sel("A0"), Ctl("MV", TRUE), Sel("L0"), Ctl("COL", TRUE), Ctl("WAIT", TRUE)>>)}

\* Every control list of up to MaxLen controls, and the examples.
Programs ==
    UNION {{Tagged(f) : f \in [1..n -> Alphabet]} : n \in 1..MaxLen} \cup ExamplePrograms

IsSelect(c) == c.op = "SEL"
IsWait(c) == c.op = "WAIT"
IsTangible(c) == c.op \in {"MV", "COL", "FX"}


(***************************************************************************)
(* Control.allow_interrupt / Select.allow_interrupt                        *)
(***************************************************************************)
AllowInterruptOf(c) == IF IsSelect(c) THEN TRUE ELSE c.int

(***************************************************************************)
(* Robotics.run_list, lines 404-413: the rolling interrupt chain.          *)
(***************************************************************************)
ChainAfter(chain, last_sel, c) ==
    IF AllowInterruptOf(c)
    THEN Append(chain, c)
    ELSE IF last_sel # NoCtrl THEN <<last_sel>> ELSE <<>>

(***************************************************************************)
(* Robotics.prepare_int_list: walk control_list[:-1] right to left; a SEL  *)
(* is emitted followed by the tangibles buffered after it; WAITs dropped.  *)
(***************************************************************************)
RECURSIVE PrepWalk(_, _, _, _)
PrepWalk(cl, j, int_list, buffer) ==
    IF j <= 0
    THEN IF Len(buffer) > 0 THEN int_list \o buffer ELSE int_list
    ELSE LET c == cl[j] IN
         IF IsSelect(c) THEN PrepWalk(cl, j - 1, Append(int_list, c) \o buffer, <<>>)
         ELSE IF IsWait(c) \/ c = NoCtrl THEN PrepWalk(cl, j - 1, int_list, buffer)
         ELSE PrepWalk(cl, j - 1, int_list, Append(buffer, c))

\* Mutant: the partially executed last element is not skipped.
prepare_int_list_keep_last(control_list) ==
    PrepWalk(control_list, Len(control_list), <<>>, <<>>)

prepare_int_list(control_list) ==
    PrepWalk(control_list, Len(control_list) - 1, <<>>, <<>>)

(***************************************************************************)
(* Robotics.interrupt, line 513: the acceptance test.                      *)
(***************************************************************************)
InterruptAccepted(ad, ai) == ad # NoDev /\ ai

(***************************************************************************)
(* A driver's execute() suspends (awaits inside Actuator.drive) only for a *)
(* Move on an Actuator; Apa102.execute and an Actuator given a non-Move    *)
(* return without yielding.                                                *)
(***************************************************************************)
ExecuteYields(c, d) == c.op = "MV" /\ DriverOf(d) = "Actuator"

(***************************************************************************)
(* Frames and configurations                                               *)
(***************************************************************************)
RunFrame(list) ==
    [kind |-> "run", list |-> list, i |-> 1, chain |-> <<>>, last_sel |-> NoCtrl, pc |-> "yield"]
RevFrame(list) ==
    [kind |-> "rev", list |-> list, i |-> 1, chain |-> <<>>, last_sel |-> NoCtrl, pc |-> "yield"]

Top(st) == st[Len(st)]
SetTop(st, f) == [st EXCEPT ![Len(st)] = f]
Pop(st) == SubSeq(st, 1, Len(st) - 1)

Cfg == [stack |-> stack, rpc |-> rpc, ad |-> active_device, intr |-> interrupted,
        ai |-> allow_interrupt, pw |-> powered]

\* Mutant: a SEL is ignored once a device is selected.
select_device_sticky(cfg, c) == IF cfg.ad = NoDev THEN [cfg EXCEPT !.ad = c.dev] ELSE cfg

\* Robotics.select_device (every device named by Devices is registered)
select_device(cfg, c) == [cfg EXCEPT !.ad = c.dev]

\* Mutant: allow_interrupt survives the reset.
reset_state_keep_allow(cfg) == [cfg EXCEPT !.ad = NoDev, !.intr = FALSE]

\* Mutant: the selected device survives the reset.
reset_state_keep_device(cfg) == [cfg EXCEPT !.intr = FALSE, !.ai = FALSE]

\* Robotics.reset_state
reset_state(cfg) == [cfg EXCEPT !.ad = NoDev, !.intr = FALSE, !.ai = FALSE]

\* Robotics.set_power / ready_devices followed by entry into a run_list loop
ready_devices(cfg) ==
    IF cfg.pw THEN cfg
    ELSE [cfg EXCEPT !.pw = TRUE, !.stack = SetTop(cfg.stack, [Top(cfg.stack) EXCEPT !.pc = "warmup"])]

\* A frame has run off the end of its list and returns to its caller.
Return(cfg) ==
    LET f == Top(cfg.stack)
        rest == Pop(cfg.stack)
    IN IF Len(rest) = 0
       THEN \* Robotics.run line 388
            [reset_state(cfg) EXCEPT !.stack = <<>>, !.rpc = "done"]
       ELSE IF f.kind = "rev"
            THEN \* run_list lines 437-438
                 [reset_state(cfg) EXCEPT !.stack = SetTop(rest, [Top(rest) EXCEPT !.pc = "fwd_log"])]
            ELSE \* run_list line 440
                 [cfg EXCEPT !.stack = SetTop(rest, [Top(rest) EXCEPT !.pc = "int_done"])]

\* Next loop iteration of the top frame (or return).
Advance(cfg) ==
    LET f == Top(cfg.stack) IN
    IF f.i + 1 > Len(f.list)
    THEN Return(cfg)
    ELSE [cfg EXCEPT !.stack = SetTop(cfg.stack, [f EXCEPT !.i = f.i + 1, !.pc = "yield"])]

\* run_list line 430: the check made after each control of a forward frame.
AfterControl(cfg) ==
    IF cfg.intr
    THEN LET c2 == reset_state(cfg) IN
         [c2 EXCEPT !.stack = SetTop(c2.stack, [Top(c2.stack) EXCEPT !.pc = "rev_log"])]
    ELSE Advance(cfg)

\* A BadRequest leaves Robotics.run: every frame is unwound, line 388 is skipped.
Raise(cfg) == [cfg EXCEPT !.stack = <<>>, !.rpc = "error"]

Commit(cfg) ==
    /\ stack' = cfg.stack
    /\ rpc' = cfg.rpc
    /\ active_device' = cfg.ad
    /\ interrupted' = cfg.intr
    /\ allow_interrupt' = cfg.ai
    /\ powered' = cfg.pw

Call(c, d, rev) == [idx |-> c.idx, op |-> c.op, dev |-> d, rev |-> rev]

NoMark == [pc |-> "none", k |-> 0, depth |-> 0, at |-> 0]
NoInt == [acc |-> FALSE, pc |-> "none", kind |-> "none", depth |-> 0,
          hadDev |-> FALSE, curInt |-> FALSE]

(***************************************************************************)
(* Robotics.run: reset_state, then run_list(control list).                 *)
(***************************************************************************)
RunStart ==
    /\ UNCHANGED <<appVars, setVars, otaVars, actVars, parVars, ledVars, senVars, devVars, cfgVars>>
    /\ rpc = "idle"
    /\ Commit(ready_devices([reset_state(Cfg) EXCEPT !.stack = <<RunFrame(prog)>>, !.rpc = "running"]))
    /\ UNCHANGED <<prog, left, devInt, calls, intCount, intMark, lastInt>>

\* ready_devices line 449: the power-up delay has elapsed.
WarmupDone ==
    /\ UNCHANGED <<appVars, setVars, otaVars, actVars, parVars, ledVars, senVars, devVars, cfgVars>>
    /\ rpc = "running"
    /\ Top(stack).pc = "warmup"
    /\ Commit([Cfg EXCEPT !.stack = SetTop(stack, [Top(stack) EXCEPT !.pc = "yield"])])
    /\ UNCHANGED <<prog, left, devInt, calls, intCount, intMark, lastInt>>

(***************************************************************************)
(* run_list lines 404-428 for the control at the head of the top frame,    *)
(* up to the next await.                                                   *)
(***************************************************************************)
Begin ==
    /\ UNCHANGED <<appVars, setVars, otaVars, actVars, parVars, ledVars, senVars, devVars, cfgVars>>
    /\ rpc = "running"
    /\ Top(stack).kind = "run"
    /\ Top(stack).pc = "yield"
    /\ LET f == Top(stack)
           c == f.list[f.i]
           f1 == [f EXCEPT !.chain = ChainAfter(f.chain, f.last_sel, c)]
           c1 == [Cfg EXCEPT !.ai = AllowInterruptOf(c)]
       IN IF IsSelect(c)
          THEN \* select_device
               /\ Commit(AfterControl([select_device(c1, c) EXCEPT
                                           !.stack = SetTop(stack, [f1 EXCEPT !.last_sel = c])]))
               /\ UNCHANGED <<devInt, calls>>
          ELSE IF IsWait(c)
          THEN /\ Commit([c1 EXCEPT !.stack = SetTop(stack, [f1 EXCEPT !.pc = "exec"])])
               /\ UNCHANGED <<devInt, calls>>
          ELSE IF active_device = NoDev
          THEN \* BadRequest: missing SEL
               /\ Commit(Raise([c1 EXCEPT !.stack = SetTop(stack, f1)]))
               /\ UNCHANGED <<devInt, calls>>
          ELSE \* devices[active_device].execute(ctrl)
               /\ devInt' = [devInt EXCEPT ![active_device] = FALSE]
               /\ calls' = Append(calls, Call(c, active_device, FALSE))
               /\ IF ExecuteYields(c, active_device)
                  THEN Commit([c1 EXCEPT !.stack = SetTop(stack, [f1 EXCEPT !.pc = "exec"])])
                  ELSE Commit(AfterControl([c1 EXCEPT !.stack = SetTop(stack, f1)]))
    /\ UNCHANGED <<prog, left, intCount, intMark, lastInt>>

\* The WAIT's sleep or the driver's execute() has returned.
ExecEnd ==
    /\ UNCHANGED <<appVars, setVars, otaVars, actVars, parVars, ledVars, senVars, devVars, cfgVars>>
    /\ rpc = "running"
    /\ Top(stack).pc = "exec"
    /\ IF Top(stack).kind = "run" THEN Commit(AfterControl(Cfg)) ELSE Commit(Advance(Cfg))
    /\ UNCHANGED <<prog, left, devInt, calls, intCount, intMark, lastInt>>

(***************************************************************************)
(* run_list lines 433-434: run_int_list(int_chain).                        *)
(***************************************************************************)
RevLog ==
    /\ UNCHANGED <<appVars, setVars, otaVars, actVars, parVars, ledVars, senVars, devVars, cfgVars>>
    /\ rpc = "running"
    /\ Top(stack).pc = "rev_log"
    /\ LET lst == prepare_int_list(Top(stack).chain) IN
       IF Len(lst) = 0
       THEN Commit([reset_state(Cfg) EXCEPT !.stack = SetTop(stack, [Top(stack) EXCEPT !.pc = "fwd_log"])])
       ELSE Commit([Cfg EXCEPT !.stack = Append(SetTop(stack, [Top(stack) EXCEPT !.pc = "in_rev"]),
                                                RevFrame(lst))])
    /\ UNCHANGED <<prog, left, devInt, calls, intCount, intMark, lastInt>>

(***************************************************************************)
(* run_int_list lines 468-480 for the control at the head of the frame.    *)
(***************************************************************************)
RevBegin ==
    /\ UNCHANGED <<appVars, setVars, otaVars, actVars, parVars, ledVars, senVars, devVars, cfgVars>>
    /\ rpc = "running"
    /\ Top(stack).kind = "rev"
    /\ Top(stack).pc = "yield"
    /\ LET f == Top(stack)
           c == f.list[f.i]
       IN IF IsSelect(c)
          THEN /\ Commit(Advance(select_device(Cfg, c)))
               /\ UNCHANGED <<devInt, calls>>
          ELSE IF active_device = NoDev
          THEN \* BadRequest: Missing SEL in INT list
               /\ Commit(Raise(Cfg))
               /\ UNCHANGED <<devInt, calls>>
          ELSE \* devices[active_device].execute(ctrl, reverse=True)
               /\ devInt' = [devInt EXCEPT ![active_device] = FALSE]
               /\ calls' = Append(calls, Call(c, active_device, TRUE))
               /\ IF ExecuteYields(c, active_device)
                  THEN Commit([Cfg EXCEPT !.stack = SetTop(stack, [f EXCEPT !.pc = "exec"])])
                  ELSE Commit(Advance(Cfg))
    /\ UNCHANGED <<prog, left, intCount, intMark, lastInt>>

(***************************************************************************)
(* run_list lines 438-439: run_list(int_chain), the forward replay.        *)
(***************************************************************************)
FwdLog ==
    /\ UNCHANGED <<appVars, setVars, otaVars, actVars, parVars, ledVars, senVars, devVars, cfgVars>>
    /\ rpc = "running"
    /\ Top(stack).pc = "fwd_log"
    /\ LET chain == Top(stack).chain IN
       IF Len(chain) = 0
       THEN Commit([Cfg EXCEPT !.stack = SetTop(stack, [Top(stack) EXCEPT !.pc = "int_done"])])
       ELSE Commit(ready_devices(
                [Cfg EXCEPT !.stack = Append(SetTop(stack, [Top(stack) EXCEPT !.pc = "in_fwd"]),
                                             RunFrame(chain))]))
    /\ UNCHANGED <<prog, left, devInt, calls, intCount, intMark, lastInt>>

\* run_list line 440, then the next iteration of the interrupted frame.
IntDone ==
    /\ UNCHANGED <<appVars, setVars, otaVars, actVars, parVars, ledVars, senVars, devVars, cfgVars>>
    /\ rpc = "running"
    /\ Top(stack).pc = "int_done"
    /\ Commit(Advance(Cfg))
    /\ UNCHANGED <<prog, left, devInt, calls, intCount, intMark, lastInt>>

(***************************************************************************)
(* Robotics.interrupt(), called by another task while the run is suspended *)
(* at one of its awaits.                                                   *)
(***************************************************************************)
Interrupt ==
    /\ UNCHANGED <<appVars, setVars, otaVars, actVars, parVars, ledVars, senVars, devVars, cfgVars>>
    /\ rpc = "running"
    /\ LET f == Top(stack)
           here == [acc |-> InterruptAccepted(active_device, allow_interrupt),
                    pc |-> f.pc, kind |-> f.kind, depth |-> Len(stack),
                    hadDev |-> active_device # NoDev,
                    curInt |-> f.pc = "exec" /\ f.list[f.i].int]
       IN IF InterruptAccepted(active_device, allow_interrupt)
          THEN /\ intCount < MaxInterrupts
               /\ interrupted' = TRUE
               /\ devInt' = [devInt EXCEPT ![active_device] = TRUE]
               /\ intCount' = intCount + 1
               /\ intMark' = IF intCount = 0
                             THEN [pc |-> f.pc, k |-> f.i, depth |-> Len(stack), at |-> Len(calls)]
                             ELSE intMark
               /\ lastInt' = here
          ELSE /\ lastInt' = here
               /\ UNCHANGED <<interrupted, devInt, intCount, intMark>>
    /\ UNCHANGED <<prog, left, stack, rpc, active_device, allow_interrupt, powered, calls>>

(***************************************************************************)
(* Device runtime: trigger codes (const.TriggerCode)                       *)
(***************************************************************************)
INTERRUPT == 100
CALIBRATE == 101
ENABLE_TOGGLE == 110
ENABLE_ON == 111
ENABLE_OFF == 112
LOCK_TOGGLE == 115
LOCK_ON == 116
LOCK_OFF == 117

\* The codes const.TriggerCode reserves.
ReservedCodes ==
    {INTERRUPT, CALIBRATE, ENABLE_TOGGLE, ENABLE_ON, ENABLE_OFF, LOCK_TOGGLE, LOCK_ON, LOCK_OFF}

\* The codes a trigger message is given: sequences 0 and 1, a code above
\* seq_5, and every reserved code.
Codes == {0, 1, 7} \cup ReservedCodes

\* const.Strings.SEQ followed by the code
SeqName(code) == <<"Sequence 0", "Sequence 1", "Sequence 2", "Sequence 3",
                   "Sequence 4", "Sequence 5">>[code + 1]

(***************************************************************************)
(* Inu.status / activate / deactivate and Status.can_act.  The Inu class   *)
(* is outside the sources; these follow the runtime's description: status  *)
(* sets the fields it is given, activate and deactivate set `active` and   *)
(* the status text, can_act is enabled, not locked and (not active or      *)
(* allow_active).                                                          *)
(***************************************************************************)
inu_status(st, kw) == [f \in DOMAIN st |-> IF f \in DOMAIN kw THEN kw[f] ELSE st[f]]
activate(st, reason) == inu_status(st, [active |-> TRUE, status |-> reason])
deactivate(st) == inu_status(st, [active |-> FALSE, status |-> ""])
can_act(st, allow_active) == st.enabled /\ ~st.locked /\ (~st.active \/ allow_active)

\* Status(enabled=.., active=.., status=..): a record built from three
\* fields; `locked` takes its default.
StatusOf(enabled, active, text) ==
    [enabled |-> enabled, active |-> active, locked |-> FALSE, status |-> text]

(***************************************************************************)
(* InuApp.parse_trigger_code                                               *)
(***************************************************************************)
\* The codes of the enable commands.
EnableCodes == {ENABLE_TOGGLE, ENABLE_ON}

\* Mutant: normal triggers also require the device to be unlocked.
NormalTriggerAllowed_unlocked(st) == st.enabled /\ ~st.locked

\* Mutant: normal triggers are passed on whatever the status.
NormalTriggerAllowed_any(st) == TRUE

\* line 198: "Normal triggers can only execute when enabled"
NormalTriggerAllowed(st) == st.enabled

\* The branch of the if/elif chain taken for a code.
Branch(code, st) ==
    IF code = INTERRUPT THEN "interrupt"
    ELSE IF code = ENABLE_TOGGLE THEN "toggle"
    ELSE IF code = ENABLE_ON THEN (IF ~st.enabled THEN "on" ELSE "none")
    ELSE IF code = ENABLE_OFF THEN (IF st.enabled THEN "off" ELSE "none")
    ELSE IF NormalTriggerAllowed(st) THEN "trigger" ELSE "ignored"

\* The status after the branch's call on the runtime.
DispatchStatus(code, st) ==
    LET b == Branch(code, st) IN
    IF b = "toggle" THEN inu_status(st, [enabled |-> ~st.enabled, status |-> ""])
    ELSE IF b = "on" THEN activate(st, "")
    ELSE IF b = "off" THEN deactivate(st)
    ELSE st

\* The argument on_enabled_changed is called with ("none": not called).
DispatchHook(code, st) ==
    LET b == Branch(code, st) IN
    IF b = "toggle" THEN (IF DispatchStatus(code, st).enabled THEN "true" ELSE "false")
    ELSE IF b = "on" THEN "true"
    ELSE IF b = "off" THEN "false"
    ELSE "none"

\* The line parse_trigger_code logs ("" if none).
DispatchLog(code, st) ==
    IF Branch(code, st) = "ignored" THEN "Ignoring trigger while disabled" ELSE ""

(***************************************************************************)
(* RoboticsApp.on_trigger up to its first await: what the call goes on to  *)
(* do.  has_cal / has_seq: the settings hold a runnable cal_seq / a        *)
(* non-empty seq_<code>.                                                   *)
(***************************************************************************)
OnTriggerEntry(code, st, has_cal, has_seq) ==
    IF code = CALIBRATE
    THEN (IF st.enabled THEN "refused" ELSE IF has_cal THEN "calibrate" ELSE "no_cal")
    ELSE IF ~can_act(st, FALSE) THEN "cannot_act"
    ELSE IF 0 <= code /\ code <= 5 THEN (IF has_seq THEN "sequence" ELSE "empty")
    ELSE "unmapped"

(***************************************************************************)
(* Handler coroutines.  A task is a call of on_trigger (a sequence),       *)
(* on_jog or run_calibration suspended at one of its awaits:               *)
(*   "log"      before activate(...)                                       *)
(*   "sleep"    activated, sleeping before robotics.run                    *)
(*   "run"      inside robotics.run                                        *)
(*   "cooldown" sequence: in the cooldown sleep                            *)
(*   "settle"   calibration: in the sleep after robotics.run               *)
(*   "enable"   calibration: deactivated, before status(enabled=True)      *)
(***************************************************************************)
Task(kind, pc, code, bad) == [kind |-> kind, pc |-> pc, code |-> code, bad |-> bad]

\* How robotics.run can end: normally, or by raising LimitHalt, DeviceAlert
\* or another exception.  A control string that does not parse only raises.
RunOutcomes(t) == IF t.bad THEN {"error"} ELSE {"ok", "halt", "alert", "error"}

HasFree(ts) == BagCardinality(ts) < slots
Spawn(ts, t) == ts (+) SetToBag({t})
Replace(ts, t, t2) == (ts (-) SetToBag({t})) (+) SetToBag({t2})
Remove(ts, t) == ts (-) SetToBag({t})

ActivateReason(t) ==
    IF t.kind = "seq" THEN SeqName(t.code)
    ELSE IF t.kind = "jog" THEN "Jog A0: 10x5"
    ELSE "Calibrating"

NoDispatch == [code |-> -1, pre |-> StatusOf(FALSE, FALSE, ""), on_trigger |-> FALSE,
               hook |-> "none", log |-> "", msg |-> "none", alert |-> ""]

\* The status and power after robotics.run has ended in a handler, and the
\* await the handler is suspended at next ("end": it returns).
\* on_trigger lines 192-217, on_jog lines 301-311, run_calibration 323-340.
RunEnd(t, outcome, st, cooldown) ==
    IF t.kind = "seq"
    THEN IF outcome = "ok"
         THEN IF cooldown
              THEN [st |-> activate(st, "Cooldown"), off |-> FALSE, alert |-> "", pc |-> "cooldown"]
              ELSE [st |-> deactivate(st), off |-> FALSE, alert |-> "", pc |-> "end"]
         ELSE IF outcome = "halt"
         THEN [st |-> deactivate(st), off |-> FALSE, alert |-> "", pc |-> "end"]
         ELSE IF outcome = "alert"
         THEN [st |-> inu_status(st, [active |-> FALSE, enabled |-> FALSE,
                                      status |-> "Robotics malfunction!"]),
               off |-> TRUE, alert |-> "Robotics malfunction during Sequence", pc |-> "end"]
         ELSE [st |-> st, off |-> FALSE, alert |-> "", pc |-> "end"]
    ELSE IF t.kind = "jog"
    THEN IF outcome = "ok"
         THEN [st |-> deactivate(st), off |-> FALSE, alert |-> "", pc |-> "end"]
         ELSE IF outcome = "alert"
         THEN [st |-> inu_status(st, [active |-> FALSE, enabled |-> FALSE,
                                      status |-> "Jog malfunction"]),
               off |-> TRUE, alert |-> "Robotics malfunction during jog", pc |-> "end"]
         ELSE [st |-> st, off |-> FALSE, alert |-> "", pc |-> "end"]
    ELSE IF outcome = "ok"
         THEN [st |-> st, off |-> FALSE, alert |-> "", pc |-> "settle"]
         ELSE IF outcome = "alert"
         THEN [st |-> inu_status(st, [active |-> FALSE, enabled |-> FALSE,
                                      status |-> "Calibration malfunction"]),
               off |-> TRUE, alert |-> "Robotics malfunction during calibration sequence", pc |-> "end"]
         ELSE [st |-> inu_status(st, [enabled |-> FALSE, active |-> FALSE,
                                      status |-> "Calibration failed"]),
               off |-> TRUE, alert |-> "", pc |-> "end"]

Quiet == last' = NoDispatch

\* The device is up: the run loop of InuApp.run is between two turns
\* ("running"), suspended inside app_tick ("tick"), in wait_for_connect
\* ("wait") or in the sleep after an application error ("backoff").
Up == apc \in {"running", "tick", "wait", "backoff"}

AppFrame == UNCHANGED <<roboRest, setVars, otaVars, actVars, parVars, ledVars, senVars, devVars, cfgVars>>

(***************************************************************************)
(* RoboticsApp.app_init.  cal: the cal_seq setting is "seq" (a control     *)
(* string), "hash" (a string starting with #) or "none" (empty).  prev:    *)
(* the last status on the bus, or not found.                               *)
(***************************************************************************)
app_init ==
    /\ apc = "boot"
    /\ apc' = "running"
    /\ \E cal \in {"seq", "hash", "none"}, found \in BOOLEAN, prev_enabled \in BOOLEAN,
          prev_active \in BOOLEAN, idle_power \in BOOLEAN, fails \in BOOLEAN :
          IF fails
          THEN \* lines 145-146: an exception of load_devices, switch_init or
               \* get_last is logged; nothing else is done
               /\ last' = [NoDispatch EXCEPT !.log = "App init failed"]
               /\ UNCHANGED <<state, powered, tasks>>
          ELSE IF cal = "seq" \/ (cal = "hash" /\ ~(found /\ prev_enabled /\ ~prev_active))
          THEN \* run_calibration(cal_seq), suspended at its first log
               /\ tasks' = Spawn(tasks, Task("cal", "log", 0, cal = "hash"))
               /\ last' = [NoDispatch EXCEPT !.log = "Calibrating.."]
               /\ UNCHANGED <<state, powered>>
          ELSE IF ~found
          THEN /\ state' = inu_status(state, [enabled |-> FALSE, active |-> FALSE,
                                              status |-> "Safe start"])
               /\ powered' = FALSE
               /\ last' = [NoDispatch EXCEPT !.log = "No prior state found; starting disabled"]
               /\ UNCHANGED tasks
          ELSE IF prev_enabled /\ ~prev_active
          THEN /\ state' = inu_status(state, [enabled |-> TRUE, active |-> FALSE, status |-> ""])
               /\ powered' = IF idle_power THEN TRUE ELSE powered
               /\ last' = [NoDispatch EXCEPT !.log = "Previous state is idle; starting enabled"]
               /\ UNCHANGED tasks
          ELSE /\ state' = inu_status(state, [enabled |-> FALSE, active |-> FALSE,
                                              status |-> "Pending calibration"])
               /\ powered' = FALSE
               /\ last' = [NoDispatch EXCEPT !.log = "Unsafe to start enabled; starting disabled"]
               /\ UNCHANGED tasks
    /\ UNCHANGED <<allow_app_tick, ota>>
    /\ UNCHANGED alerted
    /\ AppFrame

(***************************************************************************)
(* A trigger message: on_subject_trigger -> parse_trigger_code, and the    *)
(* application's on_trigger / on_interrupt up to their first await.        *)
(***************************************************************************)
TriggerOf(codes) ==
    /\ Up
    /\ \E code \in codes :
          LET b == Branch(code, state)
              spawns == b = "trigger" /\ OnTriggerEntry(code, state, TRUE, TRUE)
                                            \in {"sequence", "calibrate"}
          IN /\ last' = [code |-> code, pre |-> state, on_trigger |-> b = "trigger",
                         hook |-> DispatchHook(code, state), log |-> DispatchLog(code, state),
                         msg |-> "ack", alert |-> ""]
             /\ state' = DispatchStatus(code, state)
             /\ alerted' = (alerted /\ code \notin EnableCodes)
             /\ IF spawns
                THEN \E has_cal \in BOOLEAN, has_seq \in BOOLEAN, bad \in BOOLEAN :
                        LET entry == OnTriggerEntry(code, state, has_cal, has_seq) IN
                        IF entry = "sequence"
                        THEN /\ HasFree(tasks)
                             /\ has_cal
                             /\ tasks' = Spawn(tasks, Task("seq", "log", code, bad))
                        ELSE IF entry = "calibrate"
                        THEN /\ HasFree(tasks)
                             /\ has_seq
                             /\ tasks' = Spawn(tasks, Task("cal", "log", 0, bad))
                        ELSE /\ ~bad /\ (has_cal \/ has_seq)
                             /\ UNCHANGED tasks
                ELSE UNCHANGED tasks
    /\ UNCHANGED <<allow_app_tick, apc, ota, powered>>
    /\ AppFrame

Trigger == TriggerOf(Codes)

(***************************************************************************)
(* RoboticsApp.on_jog up to the await of the message's ack.  valid: the    *)
(* payload names a registered device, a distance other than 0 and a speed  *)
(* above 0.                                                                *)
(***************************************************************************)
\* Mutant: on_jog makes neither of its two status tests.
JogRefusal_none(st) == ""

\* lines 268-276: the log line of the refusal ("": the jog is not refused)
JogRefusal(st) ==
    IF st.enabled THEN "Cannot jog while enabled"
    ELSE IF st.active THEN "Ignoring jog while active"
    ELSE ""

on_jog ==
    /\ Up
    /\ \E valid \in BOOLEAN :
          IF JogRefusal(state) # ""
          THEN /\ last' = [NoDispatch EXCEPT !.hook = "on_jog", !.log = JogRefusal(state),
                                           !.msg = "term"]
               /\ UNCHANGED tasks
          ELSE IF ~valid
          THEN /\ last' = [NoDispatch EXCEPT !.hook = "on_jog", !.log = "Bad jog request",
                                           !.msg = "term"]
               /\ UNCHANGED tasks
          ELSE /\ HasFree(tasks)
               /\ last' = [NoDispatch EXCEPT !.hook = "on_jog", !.msg = "ack"]
               /\ tasks' = Spawn(tasks, Task("jog", "log", 0, FALSE))
    /\ UNCHANGED <<state, allow_app_tick, apc, ota, powered>>
    /\ UNCHANGED alerted
    /\ AppFrame

\* inu.activate(reason) of a sequence, a jog or a calibration
TaskActivate ==
    /\ Up
    /\ \E t \in BagToSet(tasks) :
          /\ t.pc = "log"
          /\ state' = activate(state, ActivateReason(t))
          /\ tasks' = Replace(tasks, t, [t EXCEPT !.pc = "sleep"])
    /\ Quiet
    /\ UNCHANGED <<allow_app_tick, apc, ota, powered>>
    /\ UNCHANGED alerted
    /\ AppFrame

\* robotics.run(ctrl) is entered: a control list that parsed powers the drivers
TaskRun ==
    /\ Up
    /\ \E t \in BagToSet(tasks) :
          /\ t.pc = "sleep"
          /\ powered' = IF t.bad THEN powered ELSE TRUE
          /\ tasks' = Replace(tasks, t, [t EXCEPT !.pc = "run"])
    /\ Quiet
    /\ UNCHANGED <<state, allow_app_tick, apc, ota>>
    /\ UNCHANGED alerted
    /\ AppFrame

\* robotics.run(ctrl) has returned or raised
TaskRunEnd ==
    /\ Up
    /\ \E t \in BagToSet(tasks), cooldown \in BOOLEAN :
          /\ t.pc = "run"
          /\ \E outcome \in RunOutcomes(t) :
                LET r == RunEnd(t, outcome, state, cooldown) IN
                /\ state' = r.st
                /\ powered' = IF r.off THEN FALSE ELSE powered
                /\ tasks' = IF r.pc = "end" THEN Remove(tasks, t)
                            ELSE Replace(tasks, t, [t EXCEPT !.pc = r.pc])
                /\ last' = [NoDispatch EXCEPT !.alert = r.alert]
                /\ alerted' = (alerted \/ (t.kind = "seq" /\ outcome = "alert"))
    /\ UNCHANGED <<allow_app_tick, apc, ota>>
    /\ AppFrame

\* The end of the cooldown (on_trigger line 198) and of the calibration
\* (run_calibration lines 324 and 327).
TaskFinish ==
    /\ Up
    /\ \E t \in BagToSet(tasks) :
          \/ /\ t.pc = "cooldown"
             /\ state' = deactivate(state)
             /\ tasks' = Remove(tasks, t)
          \/ /\ t.pc = "settle"
             /\ state' = deactivate(state)
             /\ tasks' = Replace(tasks, t, [t EXCEPT !.pc = "enable"])
          \/ /\ t.pc = "enable"
             /\ state' = inu_status(state, [enabled |-> TRUE, active |-> FALSE, status |-> ""])
             /\ tasks' = Remove(tasks, t)
    /\ Quiet
    /\ UNCHANGED <<allow_app_tick, apc, ota, powered>>
    /\ UNCHANGED alerted
    /\ AppFrame

(***************************************************************************)
(* InuApp.perform_ota_update and abort_ota as the other handlers see them. *)
(***************************************************************************)
NoSnapshot == StatusOf(FALSE, FALSE, "")

\* lines 366-374: snapshot, maintenance mode, "Applying OTA update"
ota_enter(st) == inu_status(st, [enabled |-> FALSE, active |-> FALSE,
                                 status |-> "Applying OTA update"])
ota_snapshot(st) == StatusOf(st.enabled, st.active, st.status)

\* abort_ota lines 458-459: inu.state = state; inu.status(status="")
abort_ota(st, snapshot) == inu_status(snapshot, [status |-> ""])

\* lines 446-447: inu.state = original_state; inu.status(status="OTA reboot")
ota_reboot(snapshot) == inu_status(snapshot, [status |-> "OTA reboot"])

\* on_ota -> perform_ota_update lines 356-364
on_ota ==
    /\ Up
    /\ ota.pc = "idle"
    /\ IF ~allow_app_tick
       THEN UNCHANGED <<ota, state, allow_app_tick>>
       ELSE IF state.active
       THEN /\ ota' = [ota EXCEPT !.pc = "wait"]
            /\ UNCHANGED <<state, allow_app_tick>>
       ELSE /\ ota' = [pc |-> "busy", snapshot |-> ota_snapshot(state)]
            /\ allow_app_tick' = FALSE
            /\ state' = ota_enter(state)
    /\ Quiet
    /\ UNCHANGED <<apc, tasks, powered>>
    /\ UNCHANGED alerted
    /\ AppFrame

\* the wait loop of lines 363-364 ends
OtaEnter ==
    /\ Up
    /\ ota.pc = "wait"
    /\ ~state.active
    /\ ota' = [pc |-> "busy", snapshot |-> ota_snapshot(state)]
    /\ allow_app_tick' = FALSE
    /\ state' = ota_enter(state)
    /\ Quiet
    /\ UNCHANGED <<apc, tasks, powered>>
    /\ UNCHANGED alerted
    /\ AppFrame

\* The update ends: aborted, by an exception no handler catches, or applied.
OtaEnd ==
    /\ Up
    /\ ota.pc = "busy"
    /\ \E outcome \in {"abort", "raise", "applied"} :
          IF outcome = "abort"
          THEN /\ state' = abort_ota(state, ota.snapshot)
               /\ allow_app_tick' = TRUE
               /\ ota' = [pc |-> "idle", snapshot |-> NoSnapshot]
               /\ UNCHANGED apc
          ELSE IF outcome = "raise"
          THEN /\ ota' = [pc |-> "idle", snapshot |-> NoSnapshot]
               /\ UNCHANGED <<state, allow_app_tick, apc>>
          ELSE /\ state' = ota_reboot(ota.snapshot)
               /\ apc' = "reset"
               /\ ota' = [pc |-> "idle", snapshot |-> NoSnapshot]
               /\ UNCHANGED allow_app_tick
    /\ Quiet
    /\ UNCHANGED <<tasks, powered>>
    /\ UNCHANGED alerted
    /\ AppFrame

\* InuApp.on_reboot lines 328-333, up to the sleep before the reset
on_reboot ==
    /\ Up
    /\ \A t \in BagToSet(tasks) : t.kind # "reboot"
    /\ allow_app_tick' = FALSE
    /\ state' = inu_status(state, [status |-> "Performing reboot"])
    /\ tasks' = Spawn(tasks, Task("reboot", "reboot", 0, FALSE))
    /\ Quiet
    /\ UNCHANGED <<apc, ota, powered>>
    /\ UNCHANGED alerted
    /\ AppFrame

\* on_reboot line 334: machine.reset()
Reset ==
    /\ Up
    /\ \E t \in BagToSet(tasks) : t.kind = "reboot"
    /\ apc' = "reset"
    /\ Quiet
    /\ UNCHANGED <<state, allow_app_tick, tasks, ota, powered>>
    /\ UNCHANGED alerted
    /\ AppFrame

(***************************************************************************)
(* The run loop of InuApp.run (lines 156-168) and RoboticsApp.app_tick.    *)
(***************************************************************************)
\* Mutant: the loop calls app_tick whatever allow_app_tick is.
TickAllowed_always(tick) == TRUE

\* InuApp.run line 161: `if self.allow_app_tick`
TickAllowed(tick) == tick

\* app_tick lines 151-152; expired: get_idle_time() >= idle_period
IdleCheck(st, pw, idle_power, expired) == ~idle_power /\ ~st.active /\ pw /\ expired

\* Mutant: an exception of app_tick leaves the loop.
AfterTickError_ends == "crashed"

\* InuApp.run lines 164-166: the exception is caught and logged, and the
\* loop sleeps 1 s
AfterTickError == "backoff"

\* One turn of the loop: app_tick is called and returns, is suspended at
\* the log of line 153, or raises.  app_init (and the calibration it awaits)
\* is over.
AppTick ==
    /\ apc = "running"
    /\ \A t \in BagToSet(tasks) : t.kind # "cal"
    /\ TickAllowed(allow_app_tick)
    /\ \E idle_power \in BOOLEAN, expired \in BOOLEAN, raises \in BOOLEAN :
          IF raises
          THEN /\ apc' = AfterTickError
               /\ last' = [NoDispatch EXCEPT !.hook = "app_tick", !.log = "Application error"]
          ELSE /\ apc' = IF IdleCheck(state, powered, idle_power, expired)
                         THEN "tick" ELSE "running"
               /\ last' = [NoDispatch EXCEPT !.hook = "app_tick"]
    /\ UNCHANGED <<state, allow_app_tick, tasks, ota, powered>>
    /\ UNCHANGED alerted
    /\ AppFrame

\* app_tick line 154: robotics.set_power(False)
AppTickOff ==
    /\ apc = "tick"
    /\ powered' = FALSE
    /\ apc' = "running"
    /\ Quiet
    /\ UNCHANGED <<state, allow_app_tick, tasks, ota>>
    /\ UNCHANGED alerted
    /\ AppFrame

\* InuApp.run line 166: the sleep after an application error is over
BackoffEnd ==
    /\ apc = "backoff"
    /\ apc' = "running"
    /\ Quiet
    /\ UNCHANGED <<state, allow_app_tick, tasks, ota, powered>>
    /\ UNCHANGED alerted
    /\ AppFrame

(***************************************************************************)
(* The link layer: InuApp.init / connect_wifi at bootstrap, and the check  *)
(* at the top of each turn of the run loop.                                *)
(***************************************************************************)
\* How Wifi.wait_for_connect ends: it returns once the status is CONNECTED,
\* raises Timeout after 30 s, or raises on an error status.
WaitOutcomes == {"connected", "Timeout", "NoAccessPoint", "BadPassword", "WifiError"}

\* connect_wifi lines 88-101: every wifi error is caught and gives False
connect_wifi(outcome) == outcome = "connected"

\* InuApp.run lines 149-152: init() (wifi, then NATS and the settings);
\* on failure the error is logged and machine.reset() is called.
init ==
    /\ apc = "init"
    /\ \E outcome \in WaitOutcomes, nats \in BOOLEAN :
          /\ apc' = IF connect_wifi(outcome) /\ nats THEN "boot" ELSE "reset"
          /\ last' = [NoDispatch EXCEPT !.log = IF connect_wifi(outcome) THEN "" ELSE outcome]
    /\ UNCHANGED <<state, allow_app_tick, tasks, ota, powered>>
    /\ UNCHANGED alerted
    /\ AppFrame

\* InuApp.run lines 157-159: the link is found down at the top of a turn;
\* wifi.connect() and the loop is suspended in wait_for_connect
LinkLost ==
    /\ apc = "running"
    /\ apc' = "wait"
    /\ Quiet
    /\ UNCHANGED <<state, allow_app_tick, tasks, ota, powered>>
    /\ UNCHANGED alerted
    /\ AppFrame

\* wait_for_connect returns, or raises: nothing in run catches the error,
\* which ends run (and asyncio.run) without machine.reset()
WaitForConnect ==
    /\ apc = "wait"
    /\ \E outcome \in WaitOutcomes :
          /\ apc' = IF outcome = "connected" THEN "running" ELSE "crashed"
          /\ last' = [NoDispatch EXCEPT !.log = IF outcome = "connected" THEN "" ELSE outcome]
    /\ UNCHANGED <<state, allow_app_tick, tasks, ota, powered>>
    /\ UNCHANGED alerted
    /\ AppFrame
(***************************************************************************)
(* Trigger consumers: InuApp.on_settings_updated / on_disconnect           *)
(*                                                                         *)
(* A string is a sequence of symbols: a space, or a piece of text without  *)
(* spaces.  The device's central id is one such piece.                     *)
(***************************************************************************)
CentralId == <<"central.robotics.x">>
Symbols == {" ", "a", "b", "central.robotics.x"}

\* The values of settings.listen_subjects (every settings class has the field).
SubjectStrings == UNION {[1..n -> Symbols] : n \in 0..MaxSubjLen}

\* str.split(" "): cut at every single space; empty pieces are kept.
RECURSIVE SplitAcc(_, _, _, _)
SplitAcc(s, i, cur, out) ==
    IF i > Len(s) THEN Append(out, cur)
    ELSE IF s[i] = " " THEN SplitAcc(s, i + 1, <<>>, Append(out, cur))
    ELSE SplitAcc(s, i + 1, Append(cur, s[i]), out)

Split(s) == SplitAcc(s, 1, <<>>, <<>>)

\* `not subject.strip()`
IsBlank(tok) == \A i \in 1..Len(tok) : tok[i] = " "

\* lines 231-240: the subjects a trigger consumer is created for, in order
ListenSubjects(s) ==
    LET subjects == Append(Split(s), CentralId)
        NotBlank(tok) == ~IsBlank(tok)
    IN SelectSeq(subjects, NotBlank)

Range(sq) == {sq[i] : i \in 1..Len(sq)}

\* lines 242-287: the consumers created, named by the bus in creation order
NewConsumers(s, first, gen) ==
    LET subj == ListenSubjects(s)
        n == Len(subj)
    IN {[name |-> first + i - 1, kind |-> "trigger", subject |-> subj[i], gen |-> gen] :
            i \in 1..n}
       \cup {[name |-> first + n, kind |-> "ota", subject |-> CentralId, gen |-> gen],
             [name |-> first + n + 1, kind |-> "reboot", subject |-> CentralId, gen |-> gen]}

\* lines 210-214: consumer.delete for every registered name (NotFoundError ignored)
Purge(cons, registry) == {c \in cons : c.name \notin Range(registry)}

SetFrame == UNCHANGED <<roboVars, appVars, otaVars, actVars, parVars, ledVars, senVars, devVars, cfgVars>>

on_settings_updated ==
    /\ updates < MaxUpdates
    /\ \E s \in SubjectStrings :
          LET created == NewConsumers(s, next_name, updates + 1)
              k == Cardinality(created)
          IN /\ listen_subjects' = s
             /\ consumers' = Purge(consumers, listen_device_consumers) \cup created
             /\ listen_device_consumers' =
                    listen_device_consumers \o [i \in 1..k |-> next_name + i - 1]
             /\ next_name' = next_name + k
    /\ updates' = updates + 1
    /\ SetFrame

\* The connection is lost: its push consumers go with it, and on_disconnect
\* (lines 342-348) clears the registry.
on_disconnect ==
    /\ Len(listen_device_consumers) > 0
    /\ consumers' = {}
    /\ listen_device_consumers' = <<>>
    /\ UNCHANGED <<listen_subjects, next_name, updates>>
    /\ SetFrame

(***************************************************************************)
(* OTA manager: InuApp.perform_ota_update / abort_ota, step by step         *)
(***************************************************************************)
\* struct.pack("<H"/"<I", n): n in k little-endian bytes
Power256(i) == IF i = 0 THEN 1 ELSE IF i = 1 THEN 256 ELSE IF i = 2 THEN 65536 ELSE 16777216
LE(n, k) == [i \in 1..k |-> (n \div Power256(i - 1)) % 256]

\* struct.unpack("<H"/"<I", bs)[0] of a buffer of the right size
RECURSIVE Unpack(_)
Unpack(bs) == IF Len(bs) = 0 THEN 0 ELSE bs[1] + 256 * Unpack(Tail(bs))

\* content[i : i + n] with a 0-based i: what is there, never an error
Slice(content, i, n) ==
    SubSeq(content, i + 1, IF i + n < Len(content) THEN i + n ELSE Len(content))

\* An archive: the version, then for each file the length of its name, the
\* name, the length of its data, the data (the layout lines 407-433 read).
RECURSIVE PackFiles(_)
PackFiles(fs) ==
    IF Len(fs) = 0 THEN <<>>
    ELSE LE(Len(fs[1].name), 2) \o fs[1].name \o LE(Len(fs[1].data), 4) \o fs[1].data
         \o PackFiles(Tail(fs))

Pack(v, fs) == LE(v, 4) \o PackFiles(fs)

\* The file an archive carries ("f" -> two bytes).
OtaFile == [name |-> <<102>>, data |-> <<7, 9>>]
FileLists == UNION {[1..n -> {OtaFile}] : n \in 0..MaxFiles}
Archives == {Pack(v, fs) : v \in 1..MaxVersion, fs \in FileLists}

\* What the build URL can answer with status 200: an archive, or a download
\* cut short anywhere.
Contents == UNION {{SubSeq(a, 1, n) : n \in 0..Len(a)} : a \in Archives}

\* int(response.text) of the version file ("error": ValueError)
VersionTexts == {"0", "1", "2", "3", "x", ""}
ParseInt(text) ==
    IF text = "0" THEN [ok |-> TRUE, val |-> 0]
    ELSE IF text = "1" THEN [ok |-> TRUE, val |-> 1]
    ELSE IF text = "2" THEN [ok |-> TRUE, val |-> 2]
    ELSE IF text = "3" THEN [ok |-> TRUE, val |-> 3]
    ELSE [ok |-> FALSE, val |-> 0]

\* lines 377-403: resolve the version and download the build.
\* Result: [abort, fail, version, content]
Download(version, net_ok, v_code, v_text, b_code, content) ==
    IF ~net_ok THEN [abort |-> TRUE, fail |-> "request raised", version |-> version, content |-> <<>>]
    ELSE IF version = 0 /\ v_code # 200
    THEN [abort |-> TRUE, fail |-> "version not 200", version |-> version, content |-> <<>>]
    ELSE IF version = 0 /\ ~ParseInt(v_text).ok
    THEN [abort |-> TRUE, fail |-> "version malformed", version |-> version, content |-> <<>>]
    ELSE IF version = 0 /\ ParseInt(v_text).val <= 0
    THEN [abort |-> TRUE, fail |-> "version malformed", version |-> ParseInt(v_text).val,
          content |-> <<>>]
    ELSE LET v == IF version = 0 THEN ParseInt(v_text).val ELSE version IN
         IF b_code # 200
         THEN [abort |-> TRUE, fail |-> "build not 200", version |-> v, content |-> <<>>]
         ELSE [abort |-> FALSE, fail |-> "", version |-> v, content |-> content]

\* lines 416-433: unpack_file at `index`.
\* Result: [raised, fail, index, file]; fail names what is wrong with the
\* archive here, whether or not the code notices.
unpack_file(content, index, write_ok) ==
    LET fn_raw == Slice(content, index, 2)
        fn_len == Unpack(fn_raw)
        i2 == index + 2
        fn == Slice(content, i2, fn_len)
        i3 == i2 + fn_len
        dl_raw == Slice(content, i3, 4)
        data_len == Unpack(dl_raw)
        i4 == i3 + 4
        data == Slice(content, i4, data_len)
        none == [name |-> <<>>, data |-> <<>>]
    IN IF Len(fn_raw) < 2
       THEN [raised |-> TRUE, fail |-> "truncated", index |-> index, file |-> none]
       ELSE IF Len(dl_raw) < 4
       THEN [raised |-> TRUE, fail |-> "truncated", index |-> i3, file |-> none]
       ELSE IF Len(fn) = 0 \/ ~write_ok
       THEN [raised |-> TRUE, fail |-> "write raised", index |-> i4, file |-> none]
       ELSE [raised |-> FALSE,
             fail |-> IF Len(data) < data_len THEN "truncated" ELSE "",
             index |-> i4 + data_len,
             file |-> [name |-> fn, data |-> data]]

OtaFrame == UNCHANGED <<roboVars, setVars, tasks, alerted, actVars, parVars, ledVars, senVars, devVars, cfgVars>>

\* abort_ota, and the handler returns
OtaAbort(fail) ==
    /\ state' = abort_ota(state, ota.snapshot)
    /\ published' = abort_ota(state, ota.snapshot)
    /\ allow_app_tick' = TRUE
    /\ ota' = [ota EXCEPT !.pc = "idle"]
    /\ ota_fail' = IF ota_fail = "" THEN fail ELSE ota_fail
    /\ UNCHANGED apc

\* Mutant: the maintenance check of line 356 never holds.
InMaintenance_never(tick) == FALSE

\* line 356: `if not self.allow_app_tick`
InMaintenance(tick) == ~tick

\* lines 356-375: an OTA command for `version`.  The command may come while an
\* earlier update sleeps at line 375 or after one has ended.
OtaBegin ==
    /\ apc = "running"
    /\ ota.pc \in {"idle", "busy"}
    /\ ~state.active
    /\ \E version \in 0..MaxVersion :
          IF InMaintenance(allow_app_tick)
          THEN /\ last' = [NoDispatch EXCEPT
                               !.log = "Ignoring OTA request while device is in maintenance mode"]
               /\ UNCHANGED <<state, allow_app_tick, ota, otaVars>>
          ELSE /\ ota.pc = "idle"
               /\ ota' = [pc |-> "busy", snapshot |-> ota_snapshot(state)]
               /\ allow_app_tick' = FALSE
               /\ state' = ota_enter(state)
               /\ published' = ota_enter(state)
               /\ ota_version' = version
               /\ ota_content' = <<>>
               /\ ota_index' = 0
               /\ ota_files' = <<>>
               /\ ota_fail' = ""
               /\ Quiet
    /\ UNCHANGED apc
    /\ OtaFrame

\* lines 377-403
OtaFetch ==
    /\ ota.pc = "busy"
    /\ \E net_ok \in BOOLEAN, v_code \in {200, 404}, v_text \in VersionTexts,
          b_code \in {200, 404}, content \in Contents :
          LET d == Download(ota_version, net_ok, v_code, v_text, b_code, content) IN
          /\ ota_version' = d.version
          /\ ota_content' = d.content
          /\ IF d.abort
             THEN OtaAbort(d.fail)
             ELSE /\ ota' = [ota EXCEPT !.pc = "header"]
                  /\ UNCHANGED <<state, allow_app_tick, published, ota_fail, apc>>
    /\ UNCHANGED <<ota_index, ota_files>>
    /\ Quiet
    /\ OtaFrame

\* Mutant: any header version is accepted.
HeaderAccepted_any(package_version, version) == TRUE

\* line 409: `if package_version != version` aborts
HeaderAccepted(package_version, version) == package_version = version

\* lines 406-414: the archive header; struct.unpack raises on a short buffer
\* and nothing here catches it
OtaHeader ==
    /\ ota.pc = "header"
    /\ LET raw == Slice(ota_content, 0, 4) IN
       IF Len(raw) < 4
       THEN /\ ota' = [ota EXCEPT !.pc = "idle"]
            /\ ota_fail' = "truncated"
            /\ UNCHANGED <<state, allow_app_tick, published, ota_index, apc>>
       ELSE IF ~HeaderAccepted(Unpack(raw), ota_version)
       THEN /\ OtaAbort("version mismatch")
            /\ UNCHANGED ota_index
       ELSE /\ ota' = [ota EXCEPT !.pc = "unpack"]
            /\ ota_index' = 4
            /\ UNCHANGED <<state, allow_app_tick, published, ota_fail, apc>>
    /\ UNCHANGED <<ota_version, ota_content, ota_files>>
    /\ Quiet
    /\ OtaFrame

\* lines 435-444: one turn of the unpack loop
OtaUnpack ==
    /\ ota.pc = "unpack"
    /\ ota_index < Len(ota_content)
    /\ \E write_ok \in BOOLEAN :
          LET u == unpack_file(ota_content, ota_index, write_ok) IN
          /\ ota_index' = u.index
          /\ IF u.raised
             THEN /\ OtaAbort(u.fail)
                  /\ UNCHANGED ota_files
             ELSE /\ ota_files' = Append(ota_files, u.file)
                  /\ ota_fail' = IF ota_fail = "" THEN u.fail ELSE ota_fail
                  /\ UNCHANGED <<state, allow_app_tick, published, ota, apc>>
    /\ UNCHANGED <<ota_version, ota_content>>
    /\ Quiet
    /\ OtaFrame

\* lines 446-451: the loop is over; restore, "OTA reboot", machine.reset()
OtaReboot ==
    /\ ota.pc = "unpack"
    /\ ota_index >= Len(ota_content)
    /\ state' = ota_reboot(ota.snapshot)
    /\ published' = ota_reboot(ota.snapshot)
    /\ ota' = [ota EXCEPT !.pc = "reset"]
    /\ apc' = "reset"
    /\ UNCHANGED <<allow_app_tick, ota_version, ota_content, ota_index, ota_files, ota_fail>>
    /\ Quiet
    /\ OtaFrame

(***************************************************************************)
(* Actuator.execute / Actuator.drive                                       *)
(*                                                                         *)
(* Time is counted in whole ticks and distances in whole millimetres; the  *)
(* code's floating point values are kept exact as fractions.  With         *)
(* op == OpVector(...):                                                    *)
(*     ramp_time                 = op.ramp / op.scale                      *)
(*     ramp_time + full_spd_time = op.full_end / op.scale                  *)
(*     current_speed             = act.speedN / op.ramp                    *)
(*     self.displacement         = act.disp.n / act.disp.d                 *)
(***************************************************************************)
\* Actuator.DisplacementPhase
RAMP_UP == 0
FULL_SPEED == 1
RAMP_DOWN == 2
END == 3

\* min_speed of line 182; ramp_speed and safe_wait of the constructor, in
\* mm/tick^2 and ticks
ActConfig == [min_speed |-> 10, ramp_accel |-> 10, safe_wait |-> 1]

\* The MV controls handed to execute: MV <distance> <speed>
Moves == {[distance |-> 200, speed |-> 20], [distance |-> -40, speed |-> 20]}

Abs(n) == IF n < 0 THEN 0 - n ELSE n
Min2(a, b) == IF a < b THEN a ELSE b
Max2(a, b) == IF a > b THEN a ELSE b

RECURSIVE GCD(_, _)
GCD(a, b) == IF b = 0 THEN a ELSE GCD(b, a % b)

\* the value n / d in lowest terms
Fraction(n, d) == LET g == GCD(n, d) IN [n |-> n \div g, d |-> d \div g]

\* OpVector.__init__ for distance dist.n / dist.d at `speed`:
\* ramp_accel = max(2 speed^2 / distance, ramp_accel), ramp_time = speed / ramp_accel,
\* full_spd_time = distance / speed - ramp_time
OpVector(dist, speed) ==
    [ramp |-> Min2(dist.n * ActConfig.ramp_accel, 2 * speed * speed * dist.d),
     scale |-> 2 * speed * dist.d * ActConfig.ramp_accel,
     full_end |-> 2 * ActConfig.ramp_accel * dist.n]

NoAct ==
    [pc |-> "idle", stage |-> "none", reverse |-> FALSE, speed |-> 0, fwd |-> TRUE,
     ignore_int |-> FALSE, dist |-> [n |-> 0, d |-> 1],
     op |-> [ramp |-> 1, scale |-> 1, full_end |-> 0],
     phase |-> RAMP_UP, run_time |-> 0, speedN |-> 0,
     disp |-> [n |-> 0, d |-> 1], interrupted |-> FALSE]

\* History of the moves.  moves: execute calls so far; early: the latest drive
\* returned at lines 175-179; obs: run_time when the loop saw the interrupt
\* in RAMP_UP or FULL_SPEED (-1: not seen); hit: an end stop ended or refused a
\* drive of this execute; raised: OpVector raised ZeroDivisionError; x, fwd1: the
\* displacement and direction of the interrupted forward drive; undone: the
\* reversing drive of this execute has returned.
NoRig ==
    [pwm |-> FALSE, moves |-> 0, early |-> FALSE, obs |-> -1, hit |-> FALSE,
     raised |-> FALSE, x |-> [n |-> 0, d |-> 1], fwd1 |-> TRUE, undone |-> FALSE]

\* drive() lines 163-193, up to the first turn of the loop.  stop_active: the
\* end stop in the direction of travel is active.
drive(a, r, dist, speed, fwd, ignore_int, stop_active) ==
    LET a1 == [a EXCEPT !.dist = dist, !.speed = speed, !.fwd = fwd,
                        !.ignore_int = ignore_int]
        op == OpVector(dist, speed)
    IN IF stop_active
       THEN [act |-> [a1 EXCEPT !.pc = "idle"],
             rig |-> [r EXCEPT !.early = TRUE, !.hit = TRUE]]
       ELSE IF dist.n = 0
       THEN [act |-> [a1 EXCEPT !.pc = "idle"],
             rig |-> [r EXCEPT !.early = FALSE, !.raised = TRUE]]
       ELSE [act |-> [a1 EXCEPT !.pc = "busy", !.op = op, !.phase = RAMP_UP,
                                !.run_time = 0,
                                !.speedN = ActConfig.min_speed * op.ramp,
                                !.disp = [n |-> 0, d |-> op.ramp]],
             rig |-> [r EXCEPT !.pwm = TRUE, !.early = FALSE, !.obs = -1]]

\* Mutant: the reversing drive keeps the direction of the interrupted one.
ReverseOf_same(displacement, fwd) ==
    [dist |-> Fraction(displacement.n, displacement.d), fwd |-> fwd, ignore_int |-> TRUE]

\* execute line 272: drive(self.displacement, speed, int(not bool(direction)), ignore_int=True)
ReverseOf(displacement, fwd) ==
    [dist |-> Fraction(displacement.n, displacement.d), fwd |-> ~fwd, ignore_int |-> TRUE]

ActFrame == UNCHANGED <<roboVars, appVars, setVars, otaVars, parVars, ledVars, senVars, devVars, cfgVars>>

\* execute(ctrl, reverse) lines 257-267 and the drive it starts
ActExecute ==
    /\ act.pc = "idle"
    /\ rig.moves < MaxMoves
    /\ \E ctrl \in Moves, reverse \in BOOLEAN, stop_active \in BOOLEAN :
          LET fwd == IF reverse THEN ctrl.distance < 0 ELSE ctrl.distance >= 0
              a == [act EXCEPT !.interrupted = FALSE, !.stage = "first", !.reverse = reverse]
              r == [rig EXCEPT !.moves = @ + 1, !.hit = FALSE, !.raised = FALSE,
                               !.undone = FALSE, !.x = [n |-> 0, d |-> 1], !.fwd1 = fwd]
              d == drive(a, r, [n |-> Abs(ctrl.distance), d |-> 1], ctrl.speed, fwd,
                         reverse, stop_active)
          IN /\ act' = d.act
             /\ rig' = d.rig
    /\ ActFrame

\* The loop is left: pwm.deinit(), and the sleep of line 253
Break(a, r) ==
    /\ act' = [a EXCEPT !.pc = "wait"]
    /\ rig' = [r EXCEPT !.pwm = FALSE]

\* Lines 225-242: the speed and the phase after run_time has advanced
PhaseUpdate(a) ==
    LET op == a.op
        slow == ActConfig.min_speed
        gain == a.speed - slow
    IN IF a.phase = RAMP_UP
       THEN LET s == Min2(gain * a.run_time * op.scale + slow * op.ramp, a.speed * op.ramp)
            IN [a EXCEPT !.speedN = s,
                         !.phase = IF s >= a.speed * op.ramp THEN FULL_SPEED ELSE RAMP_UP]
       ELSE IF a.phase = FULL_SPEED
       THEN [a EXCEPT !.phase = IF a.run_time * op.scale >= op.full_end
                                THEN RAMP_DOWN ELSE FULL_SPEED]
       ELSE IF a.phase = RAMP_DOWN
       THEN LET s == Max2(gain * (op.ramp + op.full_end - a.run_time * op.scale)
                              + slow * op.ramp,
                          slow * op.ramp)
            IN [a EXCEPT !.speedN = s,
                         !.phase = IF s <= slow * op.ramp THEN END ELSE RAMP_DOWN]
       ELSE a

\* One turn of the loop of lines 195-250.  hit: the armed end stop is active;
\* tick_time: the time since the last turn.
DriveTick ==
    /\ act.pc \in {"busy", "loop"}
    /\ LET seen == ~act.ignore_int /\ act.interrupted
           turn == seen /\ act.phase < RAMP_DOWN
           a == [act EXCEPT !.phase = IF turn THEN RAMP_DOWN ELSE @]
           r == [rig EXCEPT !.obs = IF turn THEN act.run_time ELSE @]
       IN IF act.disp.n * act.dist.d >= act.dist.n * act.disp.d
          THEN Break(act, rig)
          ELSE IF seen /\ act.phase = END
          THEN Break(act, rig)
          ELSE \E hit \in BOOLEAN, tick_time \in 0..MaxTick :
                  IF hit
                  THEN Break(a, [r EXCEPT !.hit = TRUE])
                  ELSE IF tick_time = 0
                  THEN /\ act' = [a EXCEPT !.pc = "busy"]
                       /\ rig' = r
                  ELSE LET moved == [a EXCEPT !.disp.n = @ + a.speedN * tick_time,
                                              !.run_time = @ + tick_time]
                           b == PhaseUpdate(moved)
                       IN IF a.phase = RAMP_DOWN /\ b.phase = END /\ seen
                          THEN Break(b, r)
                          ELSE /\ act' = [b EXCEPT !.pc = IF b.phase < RAMP_DOWN
                                                          THEN "loop" ELSE "busy"]
                               /\ rig' = r
    /\ ActFrame

\* drive returns to execute (lines 269-270), or execute returns
DriveReturn ==
    /\ act.pc = "wait"
    /\ IF act.stage = "first" /\ ~act.reverse /\ act.interrupted
       THEN /\ act' = [act EXCEPT !.pc = "pause"]
            /\ rig' = [rig EXCEPT !.x = Fraction(act.disp.n, act.disp.d)]
       ELSE /\ act' = [act EXCEPT !.pc = "idle"]
            /\ rig' = [rig EXCEPT !.undone = act.stage = "undo"]
    /\ ActFrame

\* execute line 272: the reversing drive
Undo ==
    /\ act.pc = "pause"
    /\ \E stop_active \in BOOLEAN :
          LET rev == ReverseOf(act.disp, act.fwd)
              d == drive([act EXCEPT !.stage = "undo"], rig, rev.dist, act.speed, rev.fwd,
                         rev.ignore_int, stop_active)
          IN /\ act' = d.act
             /\ rig' = d.rig
    /\ ActFrame

\* RoboticsDevice.interrupt(), while the driver is suspended at a sleep:
\* line 250 (not in RAMP_DOWN or END), line 253 or line 270
ActInterrupt ==
    /\ act.pc \in {"loop", "wait", "pause"}
    /\ ~act.interrupted
    /\ act' = [act EXCEPT !.interrupted = TRUE]
    /\ UNCHANGED rig
    /\ ActFrame


(***************************************************************************)
(* Control strings (src/src/inu/hardware/robotics/__init__.py).            *)
(*                                                                         *)
(* A string is held as the sequence of the words that single spaces        *)
(* separate in it, so that str.split(" ") is the identity on it: the empty *)
(* word stands between two adjacent spaces, and before a leading or after  *)
(* a trailing one.                                                         *)
(***************************************************************************)
INTERRUPT_CODE == "INT"
EXECUTE_CODE == "!"

\* The key a docstring inside the braces of CONTROL_MAP makes of "S": Python
\* joins the two adjacent string literals of lines 257-261 into one key.
DocKey == "\n    Mapping from string codes into control classes.\n    S"

\* CONTROL_MAP: key -> control class
CONTROL_MAP ==
    [k \in {DocKey, "SEL", "SELECT", "W", "WAIT", "M", "MV", "MOVE",
            "C", "COL", "COLOUR", "COLOR", "FX"} |->
        CASE k \in {DocKey, "SEL", "SELECT"} -> "Select"
          [] k \in {"W", "WAIT"} -> "Wait"
          [] k \in {"M", "MV", "MOVE"} -> "Move"
          [] k \in {"C", "COL", "COLOUR", "COLOR"} -> "Colour"
          [] OTHER -> "Fx"]

\* ALIASES of each control class (Fx has none and does not test its code)
ALIASES(class) ==
    CASE class = "Select" -> {"SEL", "S", "SELECT"}
      [] class = "Wait" -> {"W", "WAIT"}
      [] class = "Move" -> {"M", "MV", "MOVE"}
      [] class = "Colour" -> {"C", "COL", "COLOUR", "COLOR"}
      [] OTHER -> {}

\* The words a control string starts with, and the words that follow.
FirstWords ==
    {"SEL", "S", "SELECT", "WAIT", "W", "MV", "M", "MOVE", "COL", "C", "COLOUR", "COLOR", "FX",
     "sel", "s", "Select", "wait", "w", "mv", "m", "Move", "col", "c", "colour", "Color", "fx",
     "DANCE", "INT", "800", ""}
ArgWords == {"800", "int", "!", ""}

\* The control strings of n words after the first.
ControlStrings(n) == {<<w>> \o f : w \in FirstWords, f \in [1..n -> ArgWords]}

\* str.upper() of a word
upper(w) ==
    CASE w = "sel" -> "SEL" [] w = "s" -> "S" [] w = "Select" -> "SELECT"
      [] w = "wait" -> "WAIT" [] w = "w" -> "W"
      [] w = "mv" -> "MV" [] w = "m" -> "M" [] w = "Move" -> "MOVE"
      [] w = "col" -> "COL" [] w = "c" -> "C" [] w = "colour" -> "COLOUR"
      [] w = "Color" -> "COLOR" [] w = "fx" -> "FX" [] w = "int" -> "INT"
      [] OTHER -> w

RECURSIVE lstrip(_)
lstrip(s) == IF s = <<>> THEN <<>> ELSE IF Head(s) = "" THEN lstrip(Tail(s)) ELSE s

RECURSIVE rstrip(_)
rstrip(s) ==
    IF s = <<>> THEN <<>>
    ELSE IF s[Len(s)] = "" THEN rstrip(SubSeq(s, 1, Len(s) - 1)) ELSE s

\* cmd.strip().upper().split(" "): the stripped empty string splits into [""]
Tokens(cmd) ==
    LET t == rstrip(lstrip(cmd))
    IN IF t = <<>> THEN <<"">> ELSE [i \in 1..Len(t) |-> upper(t[i])]

IsModifier(arg) == arg \in {INTERRUPT_CODE, EXECUTE_CODE}
IsPositional(arg) == ~IsModifier(arg)

Failure(exc) ==
    [exc |-> exc, class |-> "", code |-> "", args |-> <<>>, allow_int |-> FALSE, execute |-> FALSE]

\* Control.__init__ / Control._parse
Control_parse(cmd) ==
    LET args == Tokens(cmd)
        rest == Tail(args)
        positional == SelectSeq(rest, IsPositional)
    IN IF Len(args) < 2 THEN Failure("Malformed")
       ELSE IF Len(positional) < 1 THEN Failure("Malformed")
       ELSE [exc |-> "none", class |-> "Control", code |-> args[1], args |-> positional,
             allow_int |-> \E i \in 1..Len(rest) : rest[i] = INTERRUPT_CODE,
             execute |-> \E i \in 1..Len(rest) : rest[i] = EXECUTE_CODE]

\* The test each control class makes in its __init__ after Control.__init__
Rejects(class, c) ==
    CASE class = "Select" -> c.code \notin ALIASES(class) \/ Len(c.args) # 1
      [] class = "Wait" -> c.code \notin ALIASES(class) \/ Len(c.args) # 1
      [] class = "Move" -> c.code \notin ALIASES(class) \/ Len(c.args) # 2
      [] class = "Colour" -> c.code \notin ALIASES(class) \/ (3 > Len(c.args) /\ Len(c.args) < 5)
      [] OTHER -> Len(c.args) # 5

\* CONTROL_MAP[code](ctrl)
Construct(class, ctrl) ==
    LET c == Control_parse(ctrl)
    IN IF c.exc # "none" THEN c
       ELSE IF Rejects(class, c) THEN Failure("Malformed")
       ELSE [c EXCEPT !.class = class]

\* Robotics.control_from_string
control_from_string(ctrl) ==
    LET code == Tokens(ctrl)[1]
    IN IF code \notin DOMAIN CONTROL_MAP THEN Failure("BadRequest")
       ELSE Construct(CONTROL_MAP[code], ctrl)

\* Control.allow_interrupt, and its override Select.allow_interrupt
Control_allow_interrupt(c) == IF c.class = "Select" THEN TRUE ELSE c.allow_int

NoParse == [pc |-> "idle", ctrl |-> <<>>, out |-> Failure("none")]

ParFrame == UNCHANGED <<roboVars, appVars, setVars, otaVars, actVars, ledVars, senVars, devVars, cfgVars>>

\* A call of Robotics.control_from_string(ctrl)
ControlFromString ==
    /\ parse.pc = "call"
    /\ parse' = [parse EXCEPT !.pc = "done", !.out = control_from_string(parse.ctrl)]
    /\ ParFrame

(***************************************************************************)
(* The APA102 strip (src/src/apa102/__init__.py) and its robotics driver   *)
(* (src/src/inu/hardware/robotics/apa102.py).  The library calls are       *)
(* synchronous, so each call is one step.                                  *)
(***************************************************************************)
NumLeds == 4
MaxFrames == 2
MaxCalls == 2

LEFT == 0
RIGHT == 1

PAYLOAD_SIZE == 4

\* __init__ lines 26-29: one extra clock byte for each 16 pixels
EndHeaderSize == (NumLeds \div 16) + (IF NumLeds % 16 # 0 THEN 1 ELSE 0)

BufferLen == (NumLeds * PAYLOAD_SIZE) + EndHeaderSize + PAYLOAD_SIZE

\* __init__ lines 32-39: a zeroed bytearray, the header 00 00 00 00 and the
\* footer bytes FF after the last pixel
NewBuffer ==
    [k \in 0..(BufferLen - 1) |->
        IF k >= NumLeds * PAYLOAD_SIZE + PAYLOAD_SIZE THEN 255 ELSE 0]

\* a | b on non-negative integers
RECURSIVE BitOr(_, _)
BitOr(a, b) ==
    IF a = 0 THEN b
    ELSE IF b = 0 THEN a
    ELSE 2 * BitOr(a \div 2, b \div 2) + (IF a % 2 = 1 \/ b % 2 = 1 THEN 1 ELSE 0)

\* inu.hardware.robotics.colour.ColourCode is not part of the sources: a
\* colour is its four channels, and the named colour BLACK has them at 0.
ColourCode(r, g, b, x) == [r |-> r, g |-> g, b |-> b, x |-> x]

BLACK == ColourCode(0, 0, 0, 0)

\* The target colours of the calls
Palette == {ColourCode(255, 0, 0, 255), ColourCode(0, 90, 255, 100)}

\* Colours with channels outside 0..255, handed to set_led directly
WildColours == {ColourCode(300, -5, 0, 300), ColourCode(0, 256, -1, -9)}

Clamp(v, lo, hi) == IF v < lo THEN lo ELSE IF v > hi THEN hi ELSE v

\* int() of the quotient n / d, d > 0: truncation toward zero
Trunc(n, d) == IF n >= 0 THEN n \div d ELSE -((-n) \div d)

\* Apa102.map with its default ranges: 0..255 onto 0..31
map(value) == Trunc(value * 31, 255)

\* set_led lines 99-106: the channels of col after map and the clamps
Stored(col) ==
    [x |-> Clamp(map(col.x), 0, 31),
     b |-> Clamp(col.b, 0, 255),
     g |-> Clamp(col.g, 0, 255),
     r |-> Clamp(col.r, 0, 255)]

\* set_led lines 108-112: the four bytes of a pixel written at index, 0xE0 | x
\* first; an index past the end of the bytearray raises IndexError
WritePixel(m, index, s) ==
    [buf |-> [k \in DOMAIN m.buf |->
                IF k = index THEN BitOr(224, s.x)
                ELSE IF k = index + 1 THEN s.b
                ELSE IF k = index + 2 THEN s.g
                ELSE IF k = index + 3 THEN s.r
                ELSE m.buf[k]],
     exc |-> IF index + 3 >= BufferLen THEN "IndexError" ELSE "none"]

\* set_led without the test of the index against the end of the scope
set_led_not(m, lo, hi, i, col) ==
    IF m.exc # "none" THEN m
    ELSE IF i < 0 THEN [m EXCEPT !.exc = "ValueError"]
    ELSE WritePixel(m, PAYLOAD_SIZE + ((i + lo) * PAYLOAD_SIZE), Stored(col))

\* set_led(i, col) on a strip whose selected scope is lo..hi; m is the
\* buffer together with the exception raised so far
set_led(m, lo, hi, i, col) ==
    IF m.exc # "none" THEN m
    ELSE IF i < 0 THEN [m EXCEPT !.exc = "ValueError"]
    ELSE IF i + lo > hi THEN [m EXCEPT !.exc = "ValueError"]
    ELSE WritePixel(m, PAYLOAD_SIZE + ((i + lo) * PAYLOAD_SIZE), Stored(col))

\* The pixel the buffer holds for LED i
Pixel(buf, i) ==
    LET index == PAYLOAD_SIZE + (i * PAYLOAD_SIZE) IN
    [x |-> buf[index] % 32, b |-> buf[index + 1], g |-> buf[index + 2], r |-> buf[index + 3]]

\* for i in range(from, to + 1): set_led(i, col)
RECURSIVE SetRun(_, _, _, _, _, _)
SetRun(m, lo, hi, from, to, col) ==
    IF from > to \/ m.exc # "none" THEN m
    ELSE SetRun(set_led(m, lo, hi, from, col), lo, hi, from + 1, to, col)

\* fill lines 122-123
fill(m, lo, hi, col) == SetRun(m, lo, hi, 0, hi - lo, col)

\* fade lines 151-155: the colour of frame f of F, at the fraction
\* f / (F + 1) of the duration
FadeColour(base, col, f, F) ==
    ColourCode(Trunc(base.r * (F + 1) + (col.r - base.r) * f, F + 1),
               Trunc(base.g * (F + 1) + (col.g - base.g) * f, F + 1),
               Trunc(base.b * (F + 1) + (col.b - base.b) * f, F + 1),
               Trunc(base.x * (F + 1) + (col.x - base.x) * f, F + 1))

\* fade lines 149-164: F turns of the while loop, then fill
RECURSIVE FadeFrames(_, _, _, _, _, _, _)
FadeFrames(m, lo, hi, f, F, base, col) ==
    IF m.exc # "none" THEN m
    ELSE IF f > F THEN fill(m, lo, hi, col)
    ELSE FadeFrames(SetRun(m, lo, hi, lo, hi, FadeColour(base, col, f, F)),
                    lo, hi, f + 1, F, base, col)

fade(m, lo, hi, base, col, F) == FadeFrames(m, lo, hi, 1, F, base, col)

\* slide lines 181-189: the pixels j..hi of one frame, at pos = f / (F + 1);
\* j_pos = (j - lo) / (hi - lo) divides by zero on a scope of one pixel
RECURSIVE SlideRun(_, _, _, _, _, _, _, _)
SlideRun(m, lo, hi, j, f, F, direction, col) ==
    IF j > hi \/ m.exc # "none" THEN m
    ELSE IF hi = lo THEN [m EXCEPT !.exc = "ZeroDivisionError"]
    ELSE LET num == IF direction = RIGHT THEN (hi - lo) - (j - lo) ELSE j - lo
             shown == num * (F + 1) <= f * (hi - lo)
         IN  SlideRun(IF shown THEN set_led(m, lo, hi, j, col) ELSE m,
                      lo, hi, j + 1, f, F, direction, col)

\* slide lines 177-194
RECURSIVE SlideFrames(_, _, _, _, _, _, _)
SlideFrames(m, lo, hi, f, F, direction, col) ==
    IF m.exc # "none" THEN m
    ELSE IF f > F THEN fill(m, lo, hi, col)
    ELSE SlideFrames(SlideRun(m, lo, hi, lo, f, F, direction, col),
                     lo, hi, f + 1, F, direction, col)

slide(m, lo, hi, col, F, direction) == SlideFrames(m, lo, hi, 1, F, direction, col)

\* pulse lines 223-233 with the default size 0.1 (as the fraction 1/10): the colour of a pixel at
\* the distance off / nq from the pulse point, delta = 1 - distance / size
PulseColour(base, col, off, nq) ==
    ColourCode(Trunc(base.r * nq + (col.r - base.r) * (nq - 10 * off), nq),
               Trunc(base.g * nq + (col.g - base.g) * (nq - 10 * off), nq),
               Trunc(base.b * nq + (col.b - base.b) * (nq - 10 * off), nq),
               Trunc(base.x * nq + (col.x - base.x) * (nq - 10 * off), nq))

\* pulse lines 213-234: the pixels j..hi of frame f of F, at
\* pos = (f / (F + 1) - size) / (1 - 2 size) = (10 f - (F + 1)) / (8 (F + 1))
RECURSIVE PulseRun(_, _, _, _, _, _, _, _, _)
PulseRun(m, lo, hi, j, f, F, direction, base, col) ==
    IF j > hi \/ m.exc # "none" THEN m
    ELSE IF hi = lo THEN [m EXCEPT !.exc = "ZeroDivisionError"]
    ELSE LET n == hi - lo
             q == 8 * (F + 1)
             a == IF direction = RIGHT THEN n - (j - lo) ELSE j - lo
             off == Abs(a * q - (10 * f - (F + 1)) * n)
             far == 10 * off > n * q
         IN  PulseRun(set_led(m, lo, hi, j,
                              IF far THEN base ELSE PulseColour(base, col, off, n * q)),
                      lo, hi, j + 1, f, F, direction, base, col)

\* pulse lines 212-237: F turns of the while loop and no fill
RECURSIVE PulseFrames(_, _, _, _, _, _, _, _)
PulseFrames(m, lo, hi, f, F, direction, base, col) ==
    IF m.exc # "none" \/ f > F THEN m
    ELSE PulseFrames(PulseRun(m, lo, hi, lo, f, F, direction, base, col),
                     lo, hi, f + 1, F, direction, base, col)

pulse(m, lo, hi, base, col, F, direction) == PulseFrames(m, lo, hi, 1, F, direction, base, col)

(***************************************************************************)
(* The driver: Apa102.execute of hardware/robotics/apa102.py               *)
(***************************************************************************)
\* The attributes of class Fx.FX
FX == {"FADE", "SWEEP_LEFT", "SWEEP_RIGHT", "PULSE_LEFT", "PULSE_RIGHT"}

\* The positional parameters (after self) of the strip's methods
Positional == [fill |-> 2, fade |-> 2, slide |-> 3, pulse |-> 4]

\* The elif chain of execute lines 30-56: the attribute of Fx.FX each test
\* reads, and the call its branch makes
Branches ==
    << [attr |-> "FADE", op |-> "fade", direction |-> -1],
       [attr |-> "SLIDE_L", op |-> "slide", direction |-> LEFT],
       [attr |-> "SLIDE_R", op |-> "slide", direction |-> RIGHT],
       [attr |-> "PULSE_L", op |-> "pulse", direction |-> LEFT],
       [attr |-> "PULSE_R", op |-> "pulse", direction |-> RIGHT] >>

NoCall == [op |-> "none", exc |-> "none", direction |-> -1, col |-> BLACK, duration |-> 0]

\* A call of a strip method with nargs positional arguments: Python binds
\* the arguments before the body runs
StripCall(op, nargs, ctrl, direction) ==
    IF nargs > Positional[op]
    THEN [NoCall EXCEPT !.exc = "TypeError"]
    ELSE [op |-> op, exc |-> "none", direction |-> direction,
          col |-> ColourCode(ctrl.r, ctrl.g, ctrl.b, 31), duration |-> ctrl.duration]

RECURSIVE DispatchFx(_, _)
DispatchFx(ctrl, k) ==
    IF k > Len(Branches) THEN NoCall
    ELSE IF Branches[k].attr \notin FX THEN [NoCall EXCEPT !.exc = "AttributeError"]
    ELSE IF ctrl.fx = Branches[k].attr
         THEN StripCall(Branches[k].op, 5, ctrl, Branches[k].direction)
         ELSE DispatchFx(ctrl, k + 1)

Apa102_execute(ctrl) ==
    IF ctrl.class = "Colour" THEN StripCall("fill", 4, ctrl, -1)
    ELSE IF ctrl.class = "Fx" THEN DispatchFx(ctrl, 1)
    ELSE NoCall

\* The Fx and Colour controls handed to the driver
Durations == {0, 100}

StripControls ==
    {[class |-> c, r |-> p.r, g |-> p.g, b |-> p.b, duration |-> d, fx |-> e] :
        c \in {"Colour", "Fx"}, p \in Palette, d \in Durations, e \in FX \cup {"BLINK"}}

(***************************************************************************)
(* The strip as a state machine                                            *)
(***************************************************************************)
Leds == 0..(NumLeds - 1)

\* The arguments create_segment is called with
Starts == {-1, 0, 1, NumLeds - 1}
Ends == {0, NumLeds - 2, NumLeds - 1, NumLeds}

\* The segments create_segment accepts (line 55): start >= 0 and
\* end < num_leds; an end before the start is not refused
Segments == {s \in Starts \X Ends : ~(s[1] < 0 \/ s[2] >= NumLeds)}

\* The buffer after __init__: off() fills the whole strip with BLACK
BlankBuffer == fill([buf |-> NewBuffer, exc |-> "none"], 0, NumLeds - 1, BLACK).buf

NoOut == [op |-> "none", exc |-> "none", pre |-> BlankBuffer,
          col |-> BLACK, frames |-> 0, call |-> NoCall, fx |-> ""]

\* The strip after __init__ (off()) and create_segment("S", seg): nothing
\* selected, every pixel black
Strip(seg) ==
    [buf |-> BlankBuffer,
     seg |-> seg,
     selected_segment |-> "None",
     segment_start_index |-> 0,
     segment_end_index |-> NumLeds - 1,
     current_colour |-> [k \in {"None", "S"} |-> BLACK],
     calls |-> 0,
     out |-> NoOut]

LedFrame == UNCHANGED <<roboVars, appVars, setVars, otaVars, actVars, parVars, senVars, devVars, cfgVars>>

\* select_segment lines 68-79
select_segment ==
    /\ led.calls < MaxCalls
    /\ \E seg_id \in {"None", "S"} :
          led' = [led EXCEPT
                    !.selected_segment = seg_id,
                    !.segment_start_index = IF seg_id = "None" THEN 0 ELSE led.seg[1],
                    !.segment_end_index = IF seg_id = "None" THEN NumLeds - 1 ELSE led.seg[2],
                    !.calls = @ + 1,
                    !.out = NoOut]
    /\ LedFrame

\* The strip after a call that left the buffer and exception m: the colour
\* of the scope is remembered by the fill that ends the call (line 125)
After(m, op, col, F) ==
    [led EXCEPT
       !.buf = m.buf,
       !.current_colour[led.selected_segment] = IF m.exc = "none" THEN col ELSE @,
       !.calls = @ + 1,
       !.out = [NoOut EXCEPT !.op = op, !.exc = m.exc, !.pre = led.buf,
                             !.col = col, !.frames = F]]

Fill ==
    /\ led.calls < MaxCalls
    /\ \E col \in Palette :
          led' = After(fill([buf |-> led.buf, exc |-> "none"], led.segment_start_index,
                            led.segment_end_index, col), "fill", col, 0)
    /\ LedFrame

Fade ==
    /\ led.calls < MaxCalls
    /\ \E col \in Palette, F \in 0..MaxFrames :
          led' = After(fade([buf |-> led.buf, exc |-> "none"], led.segment_start_index,
                            led.segment_end_index,
                            led.current_colour[led.selected_segment], col, F),
                       "fade", col, F)
    /\ LedFrame

Slide ==
    /\ led.calls < MaxCalls
    /\ \E col \in Palette, F \in 0..MaxFrames, direction \in {LEFT, RIGHT} :
          led' = After(slide([buf |-> led.buf, exc |-> "none"], led.segment_start_index,
                             led.segment_end_index, col, F, direction),
                       "slide", col, F)
    /\ LedFrame

\* pulse: no fill ends the call, the colour of the scope is not remembered
Pulse ==
    /\ led.calls < MaxCalls
    /\ \E col \in Palette, F \in 0..MaxFrames, direction \in {LEFT, RIGHT} :
          LET m == pulse([buf |-> led.buf, exc |-> "none"], led.segment_start_index,
                         led.segment_end_index,
                         led.current_colour[led.selected_segment], col, F, direction)
          IN led' = [led EXCEPT
                       !.buf = m.buf,
                       !.calls = @ + 1,
                       !.out = [NoOut EXCEPT !.op = "pulse", !.exc = m.exc, !.pre = led.buf,
                                             !.col = col, !.frames = F]]
    /\ LedFrame

\* off lines 239-243
Off ==
    /\ led.calls < MaxCalls
    /\ led' = After(fill([buf |-> led.buf, exc |-> "none"], led.segment_start_index,
                         led.segment_end_index, BLACK), "off", BLACK, 0)
    /\ LedFrame

\* set_led called directly, with any index and colour
SetLed ==
    /\ led.calls < MaxCalls
    /\ \E i \in {-1, 0, 1, NumLeds - 1, NumLeds}, col \in Palette \cup WildColours :
          LET m == set_led([buf |-> led.buf, exc |-> "none"], led.segment_start_index,
                           led.segment_end_index, i, col)
          IN led' = [led EXCEPT
                       !.buf = m.buf,
                       !.calls = @ + 1,
                       !.out = [NoOut EXCEPT !.op = "set_led", !.exc = m.exc, !.pre = led.buf,
                                             !.col = col]]
    /\ LedFrame

\* create_segment lines 55-59, for the segment "S"
create_segment ==
    /\ led.calls < MaxCalls
    /\ \E start \in Starts, end \in Ends :
          IF <<start, end>> \notin Segments
          THEN led' = [led EXCEPT
                         !.calls = @ + 1,
                         !.out = [NoOut EXCEPT !.op = "create_segment", !.exc = "ValueError",
                                               !.pre = led.buf]]
          ELSE led' = [led EXCEPT
                         !.seg = <<start, end>>,
                         !.current_colour["S"] = BLACK,
                         !.calls = @ + 1,
                         !.out = [NoOut EXCEPT !.op = "create_segment", !.pre = led.buf]]
    /\ LedFrame

\* The driver's execute: every call it makes is refused before the strip
\* is touched
Execute ==
    /\ led.calls < MaxCalls
    /\ \E ctrl \in StripControls :
          led' = [led EXCEPT
                    !.calls = @ + 1,
                    !.out = [NoOut EXCEPT !.op = "execute", !.call = Apa102_execute(ctrl),
                                          !.exc = Apa102_execute(ctrl).exc,
                                          !.col = ColourCode(ctrl.r, ctrl.g, ctrl.b, 31),
                                          !.frames = ctrl.duration,
                                          !.fx = IF ctrl.class = "Fx" THEN ctrl.fx ELSE ""]]
    /\ LedFrame

(***************************************************************************)
(* The sentry (src/src/sentry/__init__.py): the device pool kept by on_hb  *)
(* and the pass of check_heartbeats that Sentry.run starts every 0.1 s.    *)
(* Time is time.monotonic() in seconds.                                    *)
(***************************************************************************)
MISSED_HEARTBEATS_ALARM == 10

MaxClock == 12

\* The devices that send heartbeats, and the interval their heartbeats carry
SentryDevices == {"x", "y"}

HbInterval == 1

\* Device.__init__ lines 21-24
Device(device_id, hb_freq, now) ==
    [device_id |-> device_id, heartbeat_freq |-> hb_freq, last_heartbeat |-> now]

\* Device.has_expired lines 26-33
has_expired(device, now, missed) ==
    (now - device.last_heartbeat) > (device.heartbeat_freq * missed)

\* The keys of a dict in insertion order, without those of del_list
RECURSIVE Without(_, _)
Without(order, del_list) ==
    IF order = <<>> THEN <<>>
    ELSE IF \E k \in 1..Len(del_list) : del_list[k] = Head(order)
         THEN Without(Tail(order), del_list)
         ELSE <<Head(order)>> \o Without(Tail(order), del_list)

\* check_heartbeats lines 129-130: the devices the for loop passes without
\* an alert; what is left starts with an expired device
RECURSIVE SkipAlive(_, _, _)
SkipAlive(it, pool, now) ==
    IF it = <<>> THEN <<>>
    ELSE IF has_expired(pool[Head(it)], now, MISSED_HEARTBEATS_ALARM) THEN it
    ELSE SkipAlive(Tail(it), pool, now)

NoAlert == [device_id |-> "", age |-> 0, count |-> 0]

\* Sentry.__init__ line 59: an empty pool.  device_pool is a dict: order is
\* its keys in insertion order.  age is the silence of the device found
\* expired, raised the alert published by the last step.
NoSentry ==
    [now |-> 0,
     device_pool |-> [d \in {} |-> 0],
     order |-> <<>>,
     pc |-> "idle",
     it |-> <<>>,
     cur |-> "",
     age |-> 0,
     size |-> 0,
     del_list |-> <<>>,
     checked |-> FALSE,
     alerts |-> [d \in SentryDevices |-> 0],
     raised |-> NoAlert,
     online |-> ""]

SenFrame == UNCHANGED <<roboVars, appVars, setVars, otaVars, actVars, parVars, ledVars, devVars, cfgVars>>

\* One second passes.  run lines 116-118 start a pass every 0.1 s, so a
\* pass was completed since the last second.
Tick ==
    /\ sen.pc = "idle"
    /\ sen.checked
    /\ sen.now < MaxClock
    /\ sen' = [sen EXCEPT !.now = @ + 1, !.checked = FALSE, !.raised = NoAlert, !.online = ""]
    /\ SenFrame

\* on_hb lines 244-253; it runs while run sleeps or check_heartbeats awaits
on_hb ==
    /\ sen.pc \in {"idle", "alert"}
    /\ \E device_id \in SentryDevices :
          IF device_id \in DOMAIN sen.device_pool
          THEN sen' = [sen EXCEPT !.device_pool[device_id].last_heartbeat = sen.now,
                                  !.raised = NoAlert, !.online = ""]
          ELSE sen' = [sen EXCEPT
                         !.device_pool = [d \in DOMAIN sen.device_pool \cup {device_id} |->
                                            IF d = device_id
                                            THEN Device(device_id, HbInterval, sen.now)
                                            ELSE sen.device_pool[d]],
                         !.order = Append(@, device_id),
                         !.raised = NoAlert,
                         !.online = device_id]
    /\ SenFrame

\* The for loop of check_heartbeats goes on over `it`: up to the next
\* expired device, where it awaits get_device_priority and inu.alert, or to
\* its end, where the devices of del_list are deleted (lines 135-136).
Resume(s, it) ==
    LET rest == SkipAlive(it, s.device_pool, s.now)
    IN  IF rest # <<>>
        THEN [s EXCEPT !.pc = "alert", !.cur = Head(rest), !.it = Tail(rest),
                       !.age = s.now - s.device_pool[Head(rest)].last_heartbeat]
        ELSE [s EXCEPT
                !.pc = "idle", !.cur = "", !.it = <<>>, !.checked = TRUE,
                !.device_pool = [d \in DOMAIN s.device_pool \ {s.del_list[k] : k \in 1..Len(s.del_list)}
                                   |-> s.device_pool[d]],
                !.order = Without(s.order, s.del_list),
                !.del_list = <<>>]

\* check_heartbeats is called: lines 128-130
check_heartbeats ==
    /\ sen.pc = "idle"
    /\ ~sen.checked
    /\ sen' = Resume([sen EXCEPT !.size = Len(sen.order), !.del_list = <<>>,
                                 !.raised = NoAlert, !.online = ""],
                     sen.order)
    /\ SenFrame

\* The alert was published (line 132), the device is listed for deletion
\* (line 133) and the loop asks the dict for its next item: a dict that
\* changed size while the loop was suspended raises RuntimeError, which
\* run (lines 115-120) does not catch.
AlertSent ==
    /\ sen.pc = "alert"
    /\ LET s == [sen EXCEPT
                   !.alerts[sen.cur] = @ + 1,
                   !.raised = [device_id |-> sen.cur,
                               age |-> sen.age,
                               count |-> sen.alerts[sen.cur] + 1],
                   !.online = "",
                   !.del_list = Append(@, sen.cur)]
       IN  sen' = IF Len(sen.order) # sen.size
                  THEN [s EXCEPT !.pc = "crashed"]
                  ELSE Resume(s, sen.it)
    /\ SenFrame

(***************************************************************************)
(* The settings schema (src/src/inu/schema/settings/__init__.py):          *)
(* get_device_type_from_id and get_device_settings_class.  A string is a   *)
(* sequence of pieces: words, the dot and the blank.                       *)
(***************************************************************************)
MaxIdLen == 3

IdPieces == {"motion", "Motion", "relay", "range", "sensor", "foo", ".", " "}

\* class DeviceType (const.py lines 23-41)
DeviceType ==
    [UTILITY |-> <<"utility">>, MONITOR |-> <<"monitor">>, RELAY |-> <<"relay">>,
     SWITCH |-> <<"switch">>, MOTION |-> <<"motion">>, RANGE |-> <<"range">>,
     ROBOTICS |-> <<"robotics">>]

\* str.split("."): the parts between the dots, empty parts included
RECURSIVE SplitDots(_, _, _, _)
SplitDots(s, i, cur, out) ==
    IF i > Len(s) THEN Append(out, cur)
    ELSE IF s[i] = "." THEN SplitDots(s, i + 1, <<>>, Append(out, cur))
    ELSE SplitDots(s, i + 1, Append(cur, s[i]), out)

\* str.strip()
RECURSIVE strip(_)
strip(s) ==
    IF s = <<>> THEN <<>>
    ELSE IF Head(s) = " " THEN strip(Tail(s))
    ELSE IF s[Len(s)] = " " THEN strip(SubSeq(s, 1, Len(s) - 1))
    ELSE s

\* str.lower()
lower(s) == [i \in 1..Len(s) |-> IF s[i] = "Motion" THEN "motion" ELSE s[i]]

Returned(value) == [value |-> value, exc |-> "none"]

Raised(exc) == [value |-> <<>>, exc |-> exc]

\* The elif chain of get_device_settings_class lines 71-80: the attribute of
\* DeviceType each test reads, and the class its branch returns
SettingsChain ==
    << [attr |-> "MOTION", class |-> <<"sensors.MotionSensor">>],
       [attr |-> "RANGE", class |-> <<"sensors.RangeTrigger">>],
       [attr |-> "ACTUATOR", class |-> <<"actuators.Actuator">>],
       [attr |-> "DOOR", class |-> <<"actuators.Door">>],
       [attr |-> "RELAY", class |-> <<"Relay">>] >>

RECURSIVE SettingsClassFrom(_, _)
SettingsClassFrom(dvc, k) ==
    IF k > Len(SettingsChain) THEN Raised("UnsupportedDeviceType")
    ELSE IF SettingsChain[k].attr \notin DOMAIN DeviceType THEN Raised("AttributeError")
    ELSE IF dvc = DeviceType[SettingsChain[k].attr] THEN Returned(SettingsChain[k].class)
    ELSE SettingsClassFrom(dvc, k + 1)

\* get_device_settings_class lines 65-82
get_device_settings_class(dvc) == SettingsClassFrom(dvc, 1)

\* get_device_type_from_id lines 48-62
get_device_type_from_id(device_id) ==
    LET parts == SplitDots(device_id, 1, <<>>, <<>>)
        device_type == lower(strip(parts[1]))
    IN  IF Len(parts) < 2 THEN Raised("InvalidDeviceId")
        ELSE IF get_device_settings_class(device_type).exc # "none"
             THEN Raised(get_device_settings_class(device_type).exc)
             ELSE Returned(device_type)

NoLookup == [pc |-> "idle", fn |-> "", arg |-> <<>>, out |-> Returned(<<>>)]

DevFrame == UNCHANGED <<roboVars, appVars, setVars, otaVars, actVars, parVars, ledVars, senVars, cfgVars>>

\* A call of get_device_type_from_id(device_id)
GetDeviceTypeFromId ==
    /\ dev.pc = "call"
    /\ dev.fn = "get_device_type_from_id"
    /\ dev' = [dev EXCEPT !.pc = "done", !.out = get_device_type_from_id(dev.arg)]
    /\ DevFrame

\* A call of get_device_settings_class(dvc)
GetDeviceSettingsClass ==
    /\ dev.pc = "call"
    /\ dev.fn = "get_device_settings_class"
    /\ dev' = [dev EXCEPT !.pc = "done", !.out = get_device_settings_class(dev.arg)]
    /\ DevFrame

(***************************************************************************)
(* Several OTA commands: each on_ota call runs its own                     *)
(* perform_ota_update (src/src/inu/app.py lines 350-375), with its own     *)
(* local original_state.  A call is                                        *)
(*   "none"  not received                                                  *)
(*   "wait"  in the loop `while self.inu.state.active` (lines 361-364)     *)
(*   "log"   past the loop: snapshot taken, allow_app_tick cleared,        *)
(*           suspended at the log of line 372                              *)
(*   "busy"  status "Applying OTA update" published, downloading           *)
(*   "done"  returned                                                      *)
(***************************************************************************)
MaxOta == 2

OtaCalls == 1..MaxOta

NoOtas == [i \in OtaCalls |-> [pc |-> "none", snapshot |-> NoSnapshot]]

OtasRest == UNCHANGED <<roboVars, tasks, ota, alerted, setVars, otaVars, actVars, parVars,
                        ledVars, senVars, devVars, slots, boot>>

OtasFrame == OtasRest /\ UNCHANGED apc

\* lines 366-371: original_state = Status(...); allow_app_tick = False
PastWait(i) ==
    /\ otas' = [otas EXCEPT ![i] = [pc |-> "log", snapshot |-> ota_snapshot(state)]]
    /\ allow_app_tick' = FALSE
    /\ UNCHANGED state

\* on_ota lines 307-315 and perform_ota_update lines 356-364
OtaCommand ==
    /\ Up
    /\ \E i \in OtaCalls :
          /\ otas[i].pc = "none"
          /\ IF ~allow_app_tick
             THEN /\ otas' = [otas EXCEPT ![i].pc = "done"]
                  /\ last' = [NoDispatch EXCEPT !.hook = "on_ota", !.msg = "ack",
                                !.log = "Ignoring OTA request while device is in maintenance mode"]
                  /\ UNCHANGED <<state, allow_app_tick>>
             ELSE IF state.active
             THEN /\ otas' = [otas EXCEPT ![i].pc = "wait"]
                  /\ last' = [NoDispatch EXCEPT !.hook = "on_ota", !.msg = "ack",
                                !.log = "OTA update requested, will initiate when idle"]
                  /\ UNCHANGED <<state, allow_app_tick>>
             ELSE /\ PastWait(i)
                  /\ last' = [NoDispatch EXCEPT !.hook = "on_ota", !.msg = "ack"]
    /\ OtasFrame

\* lines 363-364: the sleep of the wait loop ends and the device is idle
OtaWake ==
    /\ Up
    /\ \E i \in OtaCalls :
          /\ otas[i].pc = "wait"
          /\ ~state.active
          /\ PastWait(i)
    /\ Quiet
    /\ OtasFrame

\* line 373: inu.status(enabled=False, active=False, status="Applying OTA update")
OtaStatus ==
    /\ Up
    /\ \E i \in OtaCalls :
          /\ otas[i].pc = "log"
          /\ otas' = [otas EXCEPT ![i].pc = "busy"]
          /\ state' = ota_enter(state)
    /\ Quiet
    /\ UNCHANGED allow_app_tick
    /\ OtasFrame

\* abort_ota lines 456-459 with the call's own original_state
OtaAborted ==
    /\ Up
    /\ \E i \in OtaCalls :
          /\ otas[i].pc = "busy"
          /\ otas' = [otas EXCEPT ![i].pc = "done"]
          /\ state' = abort_ota(state, otas[i].snapshot)
          /\ allow_app_tick' = TRUE
    /\ Quiet
    /\ OtasFrame

\* lines 446-450: the update is applied; the device resets
OtaApplied ==
    /\ Up
    /\ \E i \in OtaCalls :
          /\ otas[i].pc = "busy"
          /\ otas' = [otas EXCEPT ![i].pc = "done"]
          /\ state' = ota_reboot(otas[i].snapshot)
    /\ apc' = "reset"
    /\ Quiet
    /\ UNCHANGED allow_app_tick
    /\ OtasRest

(***************************************************************************)
(* InuApp.init (src/src/inu/app.py lines 103-135) step by step.  boot.pc:  *)
(*   "off"       init() is not followed in this specification              *)
(*   "wifi"      in connect_wifi (line 112)                                *)
(*   "nats"      in inu.init() (line 123)                                  *)
(*   "settings"  in the loop `while not self.inu.has_settings` (127-128)    *)
(*   "done"      init() has returned                                       *)
(* wifi, nats: the link / the bus has been connected; has_settings: the    *)
(* runtime has received a settings record.                                 *)
(***************************************************************************)
NoBoot == [pc |-> "off", wifi |-> FALSE, nats |-> FALSE, has_settings |-> FALSE]

BootRest == UNCHANGED <<roboVars, state, allow_app_tick, tasks, ota, alerted, setVars, otaVars,
                        actVars, parVars, ledVars, senVars, devVars, slots, otas>>

\* Mutant: init() does not wait for the settings.
SettingsAwaited_not(b) == TRUE

\* line 127: the test of the wait loop
SettingsAwaited(b) == b.has_settings

\* lines 111-114: connect_wifi; on False init() returns False and run()
\* resets the device (lines 149-152)
BootWifi ==
    /\ apc = "init"
    /\ boot.pc = "wifi"
    /\ \E outcome \in WaitOutcomes :
          IF connect_wifi(outcome)
          THEN /\ boot' = [boot EXCEPT !.pc = "nats", !.wifi = TRUE]
               /\ last' = NoDispatch
               /\ UNCHANGED apc
          ELSE /\ boot' = [boot EXCEPT !.pc = "done"]
               /\ last' = [NoDispatch EXCEPT !.log = outcome]
               /\ apc' = "reset"
    /\ BootRest

\* lines 122-125: inu.init() brings up the bus, or fails
BootNats ==
    /\ apc = "init"
    /\ boot.pc = "nats"
    /\ \E ok \in BOOLEAN :
          IF ok
          THEN /\ boot' = [boot EXCEPT !.pc = "settings", !.nats = TRUE]
               /\ UNCHANGED apc
          ELSE /\ boot' = [boot EXCEPT !.pc = "done"]
               /\ apc' = "reset"
    /\ Quiet
    /\ BootRest

\* The bus delivers the device's settings record to the runtime
SettingsReceived ==
    /\ boot.nats
    /\ ~boot.has_settings
    /\ boot' = [boot EXCEPT !.has_settings = TRUE]
    /\ UNCHANGED <<apc, last>>
    /\ BootRest

\* lines 127-133: the wait loop ends and init() returns True
BootSettled ==
    /\ apc = "init"
    /\ boot.pc = "settings"
    /\ SettingsAwaited(boot)
    /\ boot' = [boot EXCEPT !.pc = "done"]
    /\ apc' = "boot"
    /\ Quiet
    /\ BootRest
(***************************************************************************)
(* Specifications.  Each one runs one part of the device; the variables of *)
(* the other parts rest at their initial values.                           *)
(***************************************************************************)
RoboIdle ==
    /\ prog = <<>>
    /\ stack = <<>>
    /\ rpc = "idle"
    /\ active_device = NoDev
    /\ interrupted = FALSE
    /\ allow_interrupt = FALSE
    /\ powered = FALSE
    /\ devInt = [d \in Devices |-> FALSE]
    /\ calls = <<>>
    /\ intCount = 0
    /\ intMark = NoMark
    /\ lastInt = NoInt
    /\ left = NoDev

AppIdle ==
    /\ state = StatusOf(FALSE, FALSE, "")
    /\ allow_app_tick = TRUE
    /\ apc = "boot"
    /\ tasks = EmptyBag
    /\ ota = [pc |-> "idle", snapshot |-> NoSnapshot]
    /\ last = NoDispatch
    /\ alerted = FALSE

SetIdle ==
    /\ listen_subjects = <<>>
    /\ consumers = {}
    /\ listen_device_consumers = <<>>
    /\ next_name = 1
    /\ updates = 0

OtaIdle ==
    /\ ota_version = 0
    /\ ota_content = <<>>
    /\ ota_index = 0
    /\ ota_files = <<>>
    /\ published = StatusOf(FALSE, FALSE, "")
    /\ ota_fail = ""


ActIdle ==
    /\ act = NoAct
    /\ rig = NoRig

ParIdle == parse = NoParse

LedIdle == led = Strip(<<0, NumLeds - 1>>)

SenIdle == sen = NoSentry

DevIdle == dev = NoLookup

OtasIdle == otas = NoOtas

BootIdle == boot = NoBoot

CfgIdle == slots = MaxTasks /\ OtasIdle /\ BootIdle
\* What an earlier run can have left in active_device: nothing (it returned,
\* line 388) or the actuator (it raised after its SEL).
LeftBehind == {NoDev, "A0"}

RoboInit ==
    /\ prog \in Programs
    /\ stack = <<>>
    /\ rpc = "idle"
    /\ left \in LeftBehind
    /\ active_device = left
    /\ interrupted = FALSE
    /\ allow_interrupt = FALSE
    /\ powered = FALSE
    /\ devInt = [d \in Devices |-> FALSE]
    /\ calls = <<>>
    /\ intCount = 0
    /\ intMark = NoMark
    /\ lastInt = NoInt
    /\ AppIdle /\ SetIdle /\ OtaIdle /\ ActIdle /\ ParIdle /\ LedIdle /\ SenIdle /\ DevIdle
    /\ CfgIdle

RoboNext ==
    \/ RunStart
    \/ WarmupDone
    \/ Begin
    \/ ExecEnd
    \/ RevLog
    \/ RevBegin
    \/ FwdLog
    \/ IntDone
    \/ Interrupt

SpecRobotics == RoboInit /\ [][RoboNext]_vars

\* The runtime is up and settled; the application has not run app_init yet.
\* The Inu class builds the first status outside these sources: any
\* enabled / locked, not active.
InitApp ==
    /\ state \in {[enabled |-> e, active |-> FALSE, locked |-> l, status |-> ""] :
                    e \in BOOLEAN, l \in BOOLEAN}
    /\ allow_app_tick = TRUE
    /\ apc = "boot"
    /\ tasks = EmptyBag
    /\ ota = [pc |-> "idle", snapshot |-> NoSnapshot]
    /\ last = NoDispatch
    /\ alerted = FALSE
    /\ RoboIdle /\ SetIdle /\ OtaIdle /\ ActIdle /\ ParIdle /\ LedIdle /\ SenIdle /\ DevIdle
    /\ CfgIdle

AppNext ==
    \/ app_init
    \/ Trigger
    \/ on_jog
    \/ TaskActivate
    \/ TaskRun
    \/ TaskRunEnd
    \/ TaskFinish
    \/ on_ota
    \/ OtaEnter
    \/ OtaEnd

SpecApp == InitApp /\ [][AppNext]_vars

\* The run loop together with the handlers.  The triggers are a sequence
\* code and the enable toggle; the device is not locked.
LoopCodes == {0, ENABLE_TOGGLE}

LoopTrigger == TriggerOf(LoopCodes)

InitLoop ==
    /\ state \in {StatusOf(e, FALSE, "") : e \in BOOLEAN}
    /\ allow_app_tick = TRUE
    /\ apc = "init"
    /\ tasks = EmptyBag
    /\ ota = [pc |-> "idle", snapshot |-> NoSnapshot]
    /\ last = NoDispatch
    /\ alerted = FALSE
    /\ RoboIdle /\ SetIdle /\ OtaIdle /\ ActIdle /\ ParIdle /\ LedIdle /\ SenIdle /\ DevIdle
    /\ CfgIdle

LoopNext ==
    \/ init
    \/ app_init
    \/ LoopTrigger
    \/ on_jog
    \/ TaskActivate
    \/ TaskRun
    \/ TaskRunEnd
    \/ TaskFinish
    \/ on_ota
    \/ OtaEnter
    \/ OtaEnd
    \/ on_reboot
    \/ Reset
    \/ AppTick
    \/ AppTickOff
    \/ BackoffEnd
    \/ LinkLost
    \/ WaitForConnect

SpecLoop == InitLoop /\ [][LoopNext]_vars

\* The run loop alone, with the scheduling of asyncio: no trigger or jog
\* message arrives.  Every await of the loop returns (the 1 s sleep, the
\* 30 s cap of wait_for_connect, the log and set_power of app_tick), every
\* started handler is resumed, and the loop goes round: a turn that finds
\* the link up and allow_app_tick set calls app_tick.
RunNext ==
    \/ init
    \/ app_init
    \/ TaskActivate
    \/ TaskRun
    \/ TaskRunEnd
    \/ TaskFinish
    \/ on_ota
    \/ OtaEnter
    \/ OtaEnd
    \/ on_reboot
    \/ Reset
    \/ AppTick
    \/ AppTickOff
    \/ BackoffEnd
    \/ LinkLost
    \/ WaitForConnect

RunFairness ==
    /\ WF_vars(BackoffEnd)
    /\ WF_vars(WaitForConnect)
    /\ WF_vars(AppTickOff)
    /\ SF_vars(AppTick)

SpecRun == InitLoop /\ [][RunNext]_vars /\ RunFairness

InitSettings == SetIdle /\ RoboIdle /\ AppIdle /\ OtaIdle /\ ActIdle /\ ParIdle /\ LedIdle /\ SenIdle /\ DevIdle /\ CfgIdle

SetNext ==
    \/ on_settings_updated
    \/ on_disconnect

SpecSettings == InitSettings /\ [][SetNext]_vars

\* An idle device in its main loop, enabled or not, with or without a status text.
InitOta ==
    /\ state \in {StatusOf(e, FALSE, txt) : e \in BOOLEAN, txt \in {"", "Pending calibration"}}
    /\ allow_app_tick = TRUE
    /\ apc = "running"
    /\ tasks = EmptyBag
    /\ ota = [pc |-> "idle", snapshot |-> NoSnapshot]
    /\ last = NoDispatch
    /\ alerted = FALSE
    /\ published = state
    /\ ota_version = 0
    /\ ota_content = <<>>
    /\ ota_index = 0
    /\ ota_files = <<>>
    /\ ota_fail = ""
    /\ RoboIdle /\ SetIdle /\ ActIdle /\ ParIdle /\ LedIdle /\ SenIdle /\ DevIdle
    /\ CfgIdle

OtaNext ==
    \/ OtaBegin
    \/ OtaFetch
    \/ OtaHeader
    \/ OtaUnpack
    \/ OtaReboot

SpecOta == InitOta /\ [][OtaNext]_vars


InitActuator == ActIdle /\ RoboIdle /\ AppIdle /\ SetIdle /\ OtaIdle /\ ParIdle /\ LedIdle /\ SenIdle /\ DevIdle /\ CfgIdle

ActNext ==
    \/ ActExecute
    \/ DriveTick
    \/ DriveReturn
    \/ Undo
    \/ ActInterrupt

SpecActuator == InitActuator /\ [][ActNext]_vars

(***************************************************************************)
(* Robotics.control_from_string applied to every control string of up to   *)
(* MaxArgs words after the first.                                          *)
(***************************************************************************)
InitParser ==
    /\ \E n \in 0..MaxArgs :
          \E s \in ControlStrings(n) : parse = [NoParse EXCEPT !.pc = "call", !.ctrl = s]
    /\ RoboIdle /\ AppIdle /\ SetIdle /\ OtaIdle /\ ActIdle
    /\ LedIdle /\ SenIdle /\ DevIdle
    /\ CfgIdle

ParNext == ControlFromString

SpecParser == InitParser /\ [][ParNext]_vars

(***************************************************************************)
(* The LED strip with one segment, any start..end of the strip, and up to  *)
(* MaxCalls calls of the library or of the driver.                         *)
(***************************************************************************)
InitStrip ==
    /\ \E seg \in Segments : led = Strip(seg)
    /\ RoboIdle /\ AppIdle /\ SetIdle /\ OtaIdle /\ ActIdle /\ ParIdle
    /\ SenIdle /\ DevIdle
    /\ CfgIdle

StripNext ==
    \/ select_segment
    \/ Fill
    \/ Fade
    \/ Slide
    \/ Execute

SpecStrip == InitStrip /\ [][StripNext]_vars

(***************************************************************************)
(* The library alone: MaxCalls calls of its methods on a strip that has a *)
(* segment "S", the whole strip or all of it but the first pixel.          *)
(***************************************************************************)
InitFrame ==
    /\ \E seg \in {<<0, NumLeds - 1>>, <<1, NumLeds - 1>>} : led = Strip(seg)
    /\ RoboIdle /\ AppIdle /\ SetIdle /\ OtaIdle /\ ActIdle /\ ParIdle
    /\ SenIdle /\ DevIdle
    /\ CfgIdle

FrameNext ==
    \/ create_segment
    \/ select_segment
    \/ SetLed
    \/ Fill
    \/ Fade
    \/ Slide
    \/ Pulse
    \/ Off

SpecFrame == InitFrame /\ [][FrameNext]_vars

(***************************************************************************)
(* The sentry and two devices over MaxClock seconds.                       *)
(***************************************************************************)
InitSentry ==
    /\ sen = NoSentry
    /\ RoboIdle /\ AppIdle /\ SetIdle /\ OtaIdle /\ ActIdle /\ ParIdle
    /\ LedIdle /\ DevIdle
    /\ CfgIdle

SentryNext ==
    \/ Tick
    \/ on_hb
    \/ check_heartbeats
    \/ AlertSent

SpecSentry == InitSentry /\ [][SentryNext]_vars

(***************************************************************************)
(* The two lookups of the settings schema applied to every string of up to *)
(* MaxIdLen pieces.                                                        *)
(***************************************************************************)
InitDevType ==
    /\ \E fn \in {"get_device_type_from_id", "get_device_settings_class"} :
          \E n \in 0..MaxIdLen : \E s \in [1..n -> IdPieces] :
             dev = [NoLookup EXCEPT !.pc = "call", !.fn = fn, !.arg = s]
    /\ RoboIdle /\ AppIdle /\ SetIdle /\ OtaIdle /\ ActIdle /\ ParIdle
    /\ LedIdle /\ SenIdle
    /\ CfgIdle

DevTypeNext ==
    \/ GetDeviceTypeFromId
    \/ GetDeviceSettingsClass

SpecDevType == InitDevType /\ [][DevTypeNext]_vars

(***************************************************************************)
(* The robotics handlers with one more handler call in flight than         *)
(* MaxTasks: triggers (a sequence code, the enable toggle), jogs and the   *)
(* calibration of app_init interleave at their awaits.  No OTA.            *)
(***************************************************************************)
InitHandlers ==
    /\ state \in {StatusOf(e, FALSE, "") : e \in BOOLEAN}
    /\ allow_app_tick = TRUE
    /\ apc = "boot"
    /\ tasks = EmptyBag
    /\ ota = [pc |-> "idle", snapshot |-> NoSnapshot]
    /\ last = NoDispatch
    /\ alerted = FALSE
    /\ RoboIdle /\ SetIdle /\ OtaIdle /\ ActIdle /\ ParIdle /\ LedIdle /\ SenIdle /\ DevIdle
    /\ slots = MaxTasks + 1 /\ OtasIdle /\ BootIdle

HandlersNext ==
    \/ app_init
    \/ LoopTrigger
    \/ on_jog
    \/ TaskActivate
    \/ TaskRun
    \/ TaskRunEnd
    \/ TaskFinish

SpecHandlers == InitHandlers /\ [][HandlersNext]_vars

(***************************************************************************)
(* OTA commands received by a device that runs sequences: every on_ota     *)
(* call is its own perform_ota_update.                                     *)
(***************************************************************************)
InitOtaCalls ==
    /\ state = StatusOf(TRUE, FALSE, "")
    /\ allow_app_tick = TRUE
    /\ apc = "running"
    /\ tasks = EmptyBag
    /\ ota = [pc |-> "idle", snapshot |-> NoSnapshot]
    /\ last = NoDispatch
    /\ alerted = FALSE
    /\ RoboIdle /\ SetIdle /\ OtaIdle /\ ActIdle /\ ParIdle /\ LedIdle /\ SenIdle /\ DevIdle
    /\ CfgIdle

OtaCallsNext ==
    \/ LoopTrigger
    \/ TaskActivate
    \/ TaskRun
    \/ TaskRunEnd
    \/ TaskFinish
    \/ OtaCommand
    \/ OtaWake
    \/ OtaStatus
    \/ OtaAborted
    \/ OtaApplied

SpecOtaCalls == InitOtaCalls /\ [][OtaCallsNext]_vars

(***************************************************************************)
(* Sequences alone: triggers arrive one handler call at a time, and a      *)
(* handler that can take a step eventually takes it (the sleeps end, the   *)
(* bus answers, Robotics.run returns or raises).                           *)
(***************************************************************************)
InitSequence ==
    /\ state \in {StatusOf(e, FALSE, "") : e \in BOOLEAN}
    /\ allow_app_tick = TRUE
    /\ apc = "running"
    /\ tasks = EmptyBag
    /\ ota = [pc |-> "idle", snapshot |-> NoSnapshot]
    /\ last = NoDispatch
    /\ alerted = FALSE
    /\ RoboIdle /\ SetIdle /\ OtaIdle /\ ActIdle /\ ParIdle /\ LedIdle /\ SenIdle /\ DevIdle
    /\ CfgIdle

SequenceNext ==
    \/ Trigger
    \/ TaskActivate
    \/ TaskRun
    \/ TaskRunEnd
    \/ TaskFinish

HandlerFairness ==
    /\ WF_vars(TaskActivate)
    /\ WF_vars(TaskRun)
    /\ WF_vars(TaskRunEnd)
    /\ WF_vars(TaskFinish)

SpecSequence == InitSequence /\ [][SequenceNext]_vars /\ HandlerFairness

(***************************************************************************)
(* InuApp.run from its first line, with init() followed step by step, then *)
(* app_init (and the calibration it awaits) and the loop.  No message      *)
(* arrives.                                                                *)
(***************************************************************************)
InitBoot ==
    /\ state \in {[enabled |-> e, active |-> FALSE, locked |-> l, status |-> ""] :
                    e \in BOOLEAN, l \in BOOLEAN}
    /\ allow_app_tick = TRUE
    /\ apc = "init"
    /\ tasks = EmptyBag
    /\ ota = [pc |-> "idle", snapshot |-> NoSnapshot]
    /\ last = NoDispatch
    /\ alerted = FALSE
    /\ RoboIdle /\ SetIdle /\ OtaIdle /\ ActIdle /\ ParIdle /\ LedIdle /\ SenIdle /\ DevIdle
    /\ slots = MaxTasks /\ OtasIdle
    /\ boot = [NoBoot EXCEPT !.pc = "wifi"]

BootNext ==
    \/ BootWifi
    \/ BootNats
    \/ SettingsReceived
    \/ BootSettled
    \/ app_init
    \/ TaskActivate
    \/ TaskRun
    \/ TaskRunEnd
    \/ TaskFinish
    \/ AppTick
    \/ AppTickOff
    \/ BackoffEnd
    \/ LinkLost
    \/ WaitForConnect

SpecBoot == InitBoot /\ [][BootNext]_vars
(***************************************************************************)
(* Vocabulary of the properties of the robotics controller                 *)
(***************************************************************************)
Reverse(sq) == [j \in 1..Len(sq) |-> sq[Len(sq) + 1 - j]]
IsPrefix(a, b) == Len(a) <= Len(b) /\ SubSeq(b, 1, Len(a)) = a
Tail2(sq, n) == SubSeq(sq, Len(sq) - n + 1, Len(sq))

\* The device named by the most recent SEL strictly before position j.
RECURSIVE SelBefore(_, _)
SelBefore(list, j) ==
    IF j <= 1 THEN NoDev
    ELSE IF IsSelect(list[j - 1]) THEN list[j - 1].dev
    ELSE SelBefore(list, j - 1)

\* The most recent SEL control strictly before position j (NoCtrl if none).
RECURSIVE SelCtrlBefore(_, _)
SelCtrlBefore(list, j) ==
    IF j <= 1 THEN NoCtrl
    ELSE IF IsSelect(list[j - 1]) THEN list[j - 1]
    ELSE SelCtrlBefore(list, j - 1)

\* The driver calls for the tangible controls of list[1..n], in order.
RECURSIVE TangibleCalls(_, _, _)
TangibleCalls(list, n, rev) ==
    IF n = 0 THEN <<>>
    ELSE IF IsTangible(list[n])
         THEN Append(TangibleCalls(list, n - 1, rev), Call(list[n], SelBefore(list, n), rev))
         ELSE TangibleCalls(list, n - 1, rev)

\* Position of the last control of list[1..k] not tagged interruptible (SEL
\* counts as interruptible), 0 if none.
RECURSIVE LastBlocking(_, _)
LastBlocking(list, k) ==
    IF k = 0 THEN 0
    ELSE IF ~(IsSelect(list[k]) \/ list[k].int) THEN k
    ELSE LastBlocking(list, k - 1)

\* The interrupt chain while control k runs: the most recent SEL before the
\* last blocking control, then every control after it up to k.
ClaimChain(list, k) ==
    LET b == LastBlocking(list, k)
        s == SelCtrlBefore(list, b)
    IN (IF b > 0 /\ s # NoCtrl THEN <<s>> ELSE <<>>) \o SubSeq(list, b + 1, k)

ExpectedReplay(list, k) ==
    LET ch == ClaimChain(list, k) IN
    Reverse(TangibleCalls(ch, Len(ch) - 1, TRUE)) \o TangibleCalls(ch, Len(ch), FALSE)

CallsSince(n) == SubSeq(calls, n + 1, Len(calls))

InReplay(f) == f.pc \in {"rev_log", "in_rev", "fwd_log", "in_fwd", "int_done"}

(***************************************************************************)
(* C1: when exactly one interrupt is accepted while control k is being     *)
(* executed, the driver calls made after it are the tangibles of the       *)
(* interrupt chain except k in reverse order with reverse=true, each on    *)
(* the device selected when it first ran, then the whole chain in program  *)
(* order with reverse=false; and after a non-interruptible control the     *)
(* chain holds only the most recent SEL.                                   *)
(***************************************************************************)
C1_InterruptReplay ==
    /\ (rpc = "running" /\ intCount = 1 /\ intMark.pc = "exec") =>
          LET f == stack[1]
              E == ExpectedReplay(prog, intMark.k)
          IN /\ (f.i = intMark.k /\ (InReplay(f) \/ f.pc = "exec")) =>
                    IsPrefix(CallsSince(intMark.at), E)
             /\ (f.i = intMark.k /\ f.pc = "int_done") => CallsSince(intMark.at) = E
    /\ (rpc = "running" /\ Top(stack).kind = "run" /\ Top(stack).pc = "exec"
        /\ ~AllowInterruptOf(Top(stack).list[Top(stack).i])) =>
          LET f == Top(stack)
              s == SelCtrlBefore(f.list, f.i)
          IN f.chain = IF s # NoCtrl THEN <<s>> ELSE <<>>

C1_Witness ==
    /\ rpc = "running" /\ intCount = 1 /\ intMark.pc = "exec"
    /\ Len(stack) = 1 /\ stack[1].pc = "int_done"
    /\ Len(CallsSince(intMark.at)) = 4
    /\ CallsSince(intMark.at)[2].rev
    /\ CallsSince(intMark.at)[2].dev # SelBefore(prog, intMark.k)

(***************************************************************************)
(* C5 (as claimed): interrupt() returns true only while a device is        *)
(* selected and the control being executed is tagged INT; at the yield     *)
(* between two controls it returns false.                                  *)
(***************************************************************************)
C5_AcceptedOnlyInTaggedControl ==
    lastInt.acc => (lastInt.hadDev /\ lastInt.pc = "exec" /\ lastInt.curInt)

(***************************************************************************)
(* C6 (as claimed): no interrupt is accepted while an interrupt chain is   *)
(* being replayed, in the reverse pass or in the forward pass.             *)
(***************************************************************************)
C6_ReplayNotInterruptible ==
    lastInt.acc => ~(lastInt.depth >= 2 \/ lastInt.pc \in {"rev_log", "in_rev", "fwd_log", "in_fwd"})

(***************************************************************************)
(* C6 (amended): during the reverse pass no interrupt is accepted, and the *)
(* reverse pass issues each tangible of its list exactly once, in order,   *)
(* with reverse=true.                                                      *)
(***************************************************************************)
C6_ReversePassNotInterruptible ==
    /\ (lastInt.kind = "rev" \/ lastInt.pc \in {"rev_log", "in_rev", "fwd_log"}) => ~lastInt.acc
    /\ (rpc = "running" /\ Top(stack).kind = "rev") =>
          LET f == Top(stack)
              n == IF f.pc = "exec" THEN f.i ELSE f.i - 1
              done == TangibleCalls(f.list, n, TRUE)
          IN /\ Len(done) <= Len(calls)
             /\ Tail2(calls, Len(done)) = done
             /\ ~interrupted

C6_Witness ==
    /\ rpc = "running" /\ Top(stack).kind = "rev" /\ Top(stack).pc = "exec"
    /\ lastInt.kind = "rev" /\ lastInt.pc = "exec" /\ lastInt.hadDev /\ lastInt.curInt
    /\ ~lastInt.acc

(***************************************************************************)
(* C7: a program run to the end with no interrupt issues exactly its       *)
(* tangible controls, in program order, each on the device named by the    *)
(* most recent preceding SEL, and never with reverse=true.                 *)
(***************************************************************************)
C7_ForwardCalls ==
    /\ (intCount = 0 /\ rpc = "done") => calls = TangibleCalls(prog, Len(prog), FALSE)
    /\ (intCount = 0 /\ rpc = "running") =>
          /\ IsPrefix(calls, TangibleCalls(prog, Len(prog), FALSE))
          /\ \A j \in 1..Len(calls) : ~calls[j].rev

C7_Witness ==
    /\ intCount = 0 /\ rpc = "done"
    /\ Len(calls) = 2
    /\ calls[1].dev # calls[2].dev

\* The tangible controls of p that no SEL of p precedes.
StrayTangible(p) ==
    {i \in 1..Len(p) : IsTangible(p[i]) /\ \A j \in 1..(i - 1) : ~IsSelect(p[j])}

\* run_list is about to take control number i of the program, in the
\* program's own frame.
AtControl(i) ==
    /\ rpc = "running"
    /\ Len(stack) = 1
    /\ Top(stack).kind = "run"
    /\ Top(stack).pc = "yield"
    /\ Top(stack).i = i

(***************************************************************************)
(* C19: in Robotics.run(P), whatever device an earlier run left selected,  *)
(* a tangible control that no SEL of P precedes gets no driver execute     *)
(* call, the run does not complete, and the step of run_list that takes    *)
(* the control raises BadRequest, which ends the run there.                *)
(***************************************************************************)
C19_TangibleBeforeSelRaises ==
    /\ [](\A i \in StrayTangible(prog) :
            /\ rpc # "done"
            /\ \A k \in 1..Len(calls) : calls[k].idx < i)
    /\ [][\A i \in StrayTangible(prog) :
            (AtControl(i) /\ Begin) => (rpc' = "error" /\ stack' = <<>> /\ calls' = calls)]_vars

\* A run that started with a device still selected has stopped with
\* BadRequest at a tangible control that came after a WAIT and before any SEL.
C19_Witness ==
    /\ rpc = "error"
    /\ left # NoDev
    /\ calls = <<>>
    /\ \E i \in StrayTangible(prog) : i > 1

(***************************************************************************)
(* Vocabulary of the properties of the device runtime                      *)
(***************************************************************************)
\* The latest step was a parse_trigger_code call.
Dispatched == last.code >= 0
NonReserved(code) == code \notin ReservedCodes

C3_OneConsumerPerSubject ==
    Len(listen_device_consumers) > 0 =>
        LET want == {CentralId} \cup {t \in Range(Split(listen_subjects)) : ~IsBlank(t)}
            trig == {c \in consumers : c.kind = "trigger"}
        IN /\ \A c \in consumers : c.gen = updates
           /\ \A s \in want : Cardinality({c \in trig : c.subject = s}) = 1
           /\ \A c \in trig : c.subject \in want

(***************************************************************************)
(* C4 (as the specification states it): however an OTA update fails, when  *)
(* perform_ota_update has ended the status has the snapshot's enabled and  *)
(* active, it is the status last published, and allow_app_tick is true.    *)
(***************************************************************************)
C4_FailureRestoresSnapshot ==
    (ota_fail # "" /\ ota.pc \in {"idle", "reset"}) =>
        /\ state.enabled = ota.snapshot.enabled
        /\ state.active = ota.snapshot.active
        /\ published = state
        /\ allow_app_tick

(***************************************************************************)
(* C8 (as the specification states it): in every reachable status,         *)
(* active = true implies enabled = true.                                   *)
(***************************************************************************)
C8_ActiveImpliesEnabled == state.active => state.enabled

(***************************************************************************)
(* C9: a trigger with a non-reserved code dispatched while enabled = false *)
(* does not reach on_trigger, logs "Ignoring trigger while disabled", and  *)
(* leaves the status as it was.                                            *)
(***************************************************************************)
C9_IgnoredWhileDisabled ==
    (Dispatched /\ NonReserved(last.code) /\ ~last.pre.enabled) =>
        /\ ~last.on_trigger
        /\ last.log = "Ignoring trigger while disabled"
        /\ state = last.pre

C9_Witness ==
    /\ Dispatched /\ last.code = 0 /\ ~last.pre.enabled
    /\ last.log = "Ignoring trigger while disabled"
    /\ last.pre.status # ""

(***************************************************************************)
(* C10 (as the specification states it): 111 sets enabled, 112 clears it,  *)
(* 110 flips it, 116 sets locked, 117 clears it, 115 flips it, a change    *)
(* calls the hook, and none of 100, 110, 111, 112, 115, 116, 117 reaches   *)
(* on_trigger.                                                             *)
(***************************************************************************)
C10_ReservedCodesMutateStatus ==
    Dispatched =>
        /\ last.code = ENABLE_ON => state.enabled
        /\ last.code = ENABLE_OFF => ~state.enabled
        /\ last.code = ENABLE_TOGGLE => (state.enabled = ~last.pre.enabled /\ last.hook # "none")
        /\ last.code = LOCK_ON => state.locked
        /\ last.code = LOCK_OFF => ~state.locked
        /\ last.code = LOCK_TOGGLE => state.locked = ~last.pre.locked
        /\ last.code \in {INTERRUPT, ENABLE_TOGGLE, ENABLE_ON, ENABLE_OFF,
                          LOCK_TOGGLE, LOCK_ON, LOCK_OFF} => ~last.on_trigger

(***************************************************************************)
(* C11 (as the specification states it): a trigger message delivered twice *)
(* in a row leaves the status as it was after the first delivery: the      *)
(* second of two consecutive parse_trigger_code calls with the same code   *)
(* does not change the status.                                             *)
(***************************************************************************)
C11_RedeliveryIdempotent ==
    [][(Dispatched /\ last'.code = last.code) => state' = state]_vars

(***************************************************************************)
(* C14: while the runtime is in maintenance (allow_app_tick = false, set   *)
(* by an OTA or a reboot command) the run loop starts no invocation of     *)
(* app_tick: a step that calls app_tick is taken with allow_app_tick true. *)
(***************************************************************************)
C14_NoTickInMaintenance == last.hook = "app_tick" => allow_app_tick

\* The run loop is alive and between two turns while an OTA update or a
\* reboot holds the runtime in maintenance.
C14_Witness ==
    /\ apc = "running"
    /\ ~allow_app_tick
    /\ \/ ota.pc = "busy"
       \/ \E t \in BagToSet(tasks) : t.kind = "reboot"

(***************************************************************************)
(* C15 (as the specification states it): the drivers are powered in every  *)
(* state in which robotics.run is executing a control list for a sequence, *)
(* a jog or a calibration.                                                 *)
(***************************************************************************)
C15_PoweredWhileExecuting ==
    \A t \in BagToSet(tasks) : (t.pc = "run" /\ ~t.bad) => powered

(***************************************************************************)
(* C22 (as the specification states it): a calibrate trigger (code 101)    *)
(* that the dispatcher is given while the device is disabled and idle is   *)
(* passed on to on_trigger, which with a calibration sequence configured   *)
(* runs the calibration.                                                   *)
(***************************************************************************)
C22_CalibrateHonoured ==
    [][(last'.code = CALIBRATE /\ last'.pre = state /\ ~state.enabled /\ ~state.active)
          => /\ last'.on_trigger
             /\ OnTriggerEntry(CALIBRATE, state, TRUE, FALSE) = "calibrate"]_vars

(***************************************************************************)
(* C23: a cmd.jog message that on_jog receives while status.enabled or     *)
(* status.active is true is terminated; the call starts no jog, makes no   *)
(* driver call and leaves the status and the power unchanged.              *)
(***************************************************************************)
C23_JogOnlyWhileDisabled ==
    [][(last'.hook = "on_jog" /\ (state.enabled \/ state.active))
          => /\ last'.msg = "term"
             /\ UNCHANGED <<state, tasks, powered, calls>>]_vars

\* A jog was refused on an enabled device.
C23_Witness ==
    /\ last.msg = "term"
    /\ last.log = "Cannot jog while enabled"
    /\ state.enabled

\* The step starts a sequence: on_trigger goes on to activate and run seq_<code>.
StartsSequence ==
    \E t \in BagToSet(tasks') :
        t.kind = "seq" /\ t.pc = "log" /\ CopiesIn(t, tasks') > CopiesIn(t, tasks)

(***************************************************************************)
(* C24 (as the specification states it): when a sequence raises            *)
(* DeviceAlert the handler publishes an alert and leaves the master power  *)
(* off and the status enabled = false, active = false; from then on no     *)
(* trigger starts a sequence until an enable command (110 or 111) is       *)
(* received.                                                               *)
(***************************************************************************)
C24_AlertDisablesUntilEnabled ==
    [][/\ (last'.alert = "Robotics malfunction during Sequence")
            => (~powered' /\ ~state'.enabled /\ ~state'.active)
       /\ alerted => ~StartsSequence]_vars

(***************************************************************************)
(* The link layer and the run loop                                         *)
(***************************************************************************)
\* The ways wait_for_connect fails (wifi/__init__.py lines 96-109)
LinkErrors == WaitOutcomes \ {"connected"}

\* C25: whenever the link cannot be associated within the cap, at bootstrap
\* (InuApp.init) or after the run loop found the link down, the runtime
\* requests a hard reset; and once a reset is requested neither app_init nor
\* app_tick is invoked.
C25_LinkFailureResets ==
    [][/\ (apc \in {"init", "wait"} /\ last'.log \in LinkErrors) => apc' = "reset"
       /\ apc = "reset" => (apc' = "reset" /\ last'.hook # "app_tick")]_vars

\* The run loop was ended by something other than app_tick: a reboot
\* command, or a link failure.
LoopEnded == apc \in {"reset", "crashed"}

\* The loop is between two turns, app_init (and the calibration it awaits)
\* is over, and nothing was dispatched by the last step.
AtTop ==
    /\ apc = "running"
    /\ last.hook = "none"
    /\ \A t \in BagToSet(tasks) : t.kind # "cal"

\* C26: an exception raised by app_tick does not end the run loop.  The
\* step in which app_tick raises logs the error and leaves the loop in its
\* 1 s back-off; the back-off ends with the loop between two turns; and from
\* there app_tick is called again unless allow_app_tick is cleared
\* (maintenance) or the loop was ended by a reboot or a link failure.
C26_TickErrorKeepsLoop ==
    /\ [][(last'.hook = "app_tick" /\ last'.log = "Application error") => apc' = "backoff"]_vars
    /\ [][apc = "backoff" => apc' \in {"backoff", "running", "reset"}]_vars
    /\ (apc = "backoff") ~> (AtTop \/ LoopEnded)
    /\ AtTop ~> (last.hook = "app_tick" \/ ~allow_app_tick \/ LoopEnded)

\* app_tick raised: the error is logged and the loop is in its back-off.
C26_Witness ==
    /\ apc = "backoff"
    /\ last.hook = "app_tick"
    /\ last.log = "Application error"

(***************************************************************************)
(* C12: an OTA command that arrives while allow_app_tick = false is        *)
(* ignored: it is logged, and it changes neither the status nor what was   *)
(* published, takes no snapshot, downloads nothing and writes no file.     *)
(***************************************************************************)
C12_OtaIgnoredInMaintenance ==
    [][(~allow_app_tick /\ OtaBegin) =>
          /\ last'.log = "Ignoring OTA request while device is in maintenance mode"
          /\ UNCHANGED <<state, published, allow_app_tick, ota,
                         ota_version, ota_content, ota_index, ota_files>>]_vars

\* A command was ignored while an earlier update was in progress.
C12_Witness ==
    /\ last.log = "Ignoring OTA request while device is in maintenance mode"
    /\ ota.pc = "busy"
    /\ ~allow_app_tick

(***************************************************************************)
(* C13: perform_ota_update writes a file of an archive only if the         *)
(* archive's four-byte little-endian header version equals the version of  *)
(* the update, which is the requested version or, for a request of 0, the  *)
(* positive version read from the version file.                            *)
(***************************************************************************)
C13_FilesOnlyForRequestedVersion ==
    Len(ota_files) > 0 =>
        /\ Len(ota_content) >= 4
        /\ Unpack(SubSeq(ota_content, 1, 4)) = ota_version
        /\ ota_version > 0

\* A file of an archive has been written.
C13_Witness ==
    /\ Len(ota_files) > 0
    /\ ota_files[1] = OtaFile
    /\ ota_version = MaxVersion

(***************************************************************************)
(* Vocabulary of the properties of the actuator driver                     *)
(***************************************************************************)
\* execute has returned after an interrupted forward move and its reversing
\* drive, and no end stop or exception cut either drive short.
Reversed == act.pc = "idle" /\ rig.undone /\ ~rig.hit /\ ~rig.raised

\* The reversing drive was called for the recorded displacement, in the
\* opposite direction, with interrupts ignored.
UndoArgs == act.dist = rig.x /\ act.fwd = ~rig.fwd1 /\ act.ignore_int

\* (distance driven back) - (recorded displacement), as a fraction num / den
Overshoot ==
    [num |-> act.disp.n * act.dist.d - act.dist.n * act.disp.d,
     den |-> act.disp.d * act.dist.d]

(***************************************************************************)
(* C16 (as the specification states it): once the loop of drive has seen   *)
(* an interrupt in RAMP_UP or FULL_SPEED of an interruptible move, the PWM *)
(* runs for at most one ramp time, speed / ramp_accel, (and one turn of    *)
(* the loop) longer.                                                       *)
(***************************************************************************)
C16_HaltWithinOneRampDown ==
    (rig.pwm /\ rig.obs >= 0) =>
        (act.run_time - rig.obs - MaxTick) * ActConfig.ramp_accel <= act.speed

C18_ActiveStopGivesZeroDisplacement ==
    rig.early => (act.disp.n = 0 /\ ~rig.pwm)

\* C35: in every turn of the loop of drive the speed programmed into the PWM
\* is between min_speed and the requested speed, also after an interrupt has
\* forced RAMP_DOWN during RAMP_UP or FULL_SPEED.
C35_SpeedWithinRange ==
    (act.pc \in {"busy", "loop"}) =>
        /\ ActConfig.min_speed * act.op.ramp <= act.speedN
        /\ act.speedN <= act.speed * act.op.ramp

(***************************************************************************)
(* Properties of the bootstrap                                             *)
(***************************************************************************)
\* app_init has been invoked
AppInitInvoked == apc \in {"running", "tick", "wait", "backoff", "crashed"}

\* app_init has returned: the calibration it awaits is over
AppInitReturned == AppInitInvoked /\ \A t \in BagToSet(tasks) : t.kind # "cal"

\* C37: app_init is invoked only after the link and the bus are connected
\* and a settings record has been received, and app_tick is never invoked
\* before app_init has returned.
C37_InitBeforeAppInitBeforeTick ==
    /\ (apc = "boot" \/ AppInitInvoked) => (boot.wifi /\ boot.nats /\ boot.has_settings)
    /\ (last.hook = "app_tick" \/ apc \in {"tick", "backoff"}) => AppInitReturned

C37_Witness ==
    /\ last.hook = "app_tick"
    /\ boot.pc = "done"
    /\ powered

\* The calibration of app_init is at its last step, status(enabled=True)
CalibrationSucceeds == \E t \in BagToSet(tasks) : t.kind = "cal" /\ t.pc = "enable"

\* C39: when app_init returns the device is enabled only if the calibration
\* ran to successful completion, or no calibration ran and app_init found the
\* last durable status enabled and not active; in every other case, a failed
\* initialisation included, the device is disabled.
C39_EnabledOnlyWhenSafe ==
    [][(~AppInitReturned /\ AppInitReturned')
          => (state'.enabled
                <=> (CalibrationSucceeds
                       \/ last'.log = "Previous state is idle; starting enabled"))]_vars

(***************************************************************************)
(* Properties of the handlers in flight                                    *)
(***************************************************************************)
\* The handler calls that are inside `await self.robotics.run(...)`
Running == {t \in BagToSet(tasks) : t.pc = "run"}

\* C31: at most one Robotics.run is in progress at any time, whatever the
\* interleaving of the trigger, jog and calibration handlers.
C31_OneRunAtATime ==
    /\ Cardinality(Running) <= 1
    /\ \A t \in Running : CopiesIn(t, tasks) = 1

\* A sequence started by a trigger is in progress
SequenceStarted == \E t \in BagToSet(tasks) : t.kind = "seq"

\* C34: every sequence started by an application trigger eventually leaves
\* the device with status.active = false, whatever the outcome of
\* Robotics.run.
C34_SequenceEndsInactive == SequenceStarted ~> (~state.active)

(***************************************************************************)
(* Properties of concurrent OTA commands                                   *)
(***************************************************************************)
\* The calls of perform_ota_update past the idle-wait and not yet returned
PastIdleWait == {i \in OtaCalls : otas[i].pc \in {"log", "busy"}}

\* C32: at most one OTA procedure is past its idle-wait at any time, and the
\* status a procedure keeps for an abort is one from before the first OTA
\* command took effect (never the status "Applying OTA update" itself).
C32_OneOtaPastWait ==
    /\ Cardinality(PastIdleWait) <= 1
    /\ \A i \in PastIdleWait : otas[i].snapshot.status # "Applying OTA update"

(***************************************************************************)
(* Vocabulary of the property of the control strings                       *)
(***************************************************************************)
\* The thirteen opcode aliases and the control variant each one names.
OpcodeAliases ==
    {"SEL", "S", "SELECT", "WAIT", "W", "MV", "M", "MOVE", "COL", "C", "COLOUR", "COLOR", "FX"}

VariantOf(alias) ==
    CASE alias \in {"SEL", "S", "SELECT"} -> "Select"
      [] alias \in {"WAIT", "W"} -> "Wait"
      [] alias \in {"MV", "M", "MOVE"} -> "Move"
      [] alias \in {"COL", "C", "COLOUR", "COLOR"} -> "Colour"
      [] OTHER -> "Fx"

\* The numbers of positional arguments a variant takes.
Arity(variant) ==
    CASE variant = "Select" -> {1}
      [] variant = "Wait" -> {1}
      [] variant = "Move" -> {2}
      [] variant = "Colour" -> {3, 4}
      [] OTHER -> {5}

(***************************************************************************)
(* C20 (as the specification states it): control_from_string raises        *)
(* BadRequest when the first word, in upper case, is not one of the        *)
(* thirteen opcode aliases; it raises Malformed when the alias's variant   *)
(* has fewer positional arguments than it requires, INT and ! not counted; *)
(* and given the number of positional arguments the variant takes it       *)
(* returns that variant with the arguments in order and the modifiers as   *)
(* attributes.                                                             *)
(***************************************************************************)
C20_ClassifiedAsGrammar ==
    parse.pc = "done" =>
        LET words == Tokens(parse.ctrl)
            code == words[1]
            rest == Tail(words)
            positional == SelectSeq(rest, IsPositional)
            variant == VariantOf(code)
        IN /\ code \notin OpcodeAliases => parse.out.exc = "BadRequest"
           /\ (code \in OpcodeAliases /\ \A n \in Arity(variant) : Len(positional) < n)
                 => parse.out.exc = "Malformed"
           /\ (code \in OpcodeAliases /\ Len(positional) \in Arity(variant))
                 => parse.out = [exc |-> "none", class |-> variant, code |-> code,
                                 args |-> positional,
                                 allow_int |-> \E i \in 1..Len(rest) : rest[i] = "INT",
                                 execute |-> \E i \in 1..Len(rest) : rest[i] = "!"]

\* The INT modifier is among the words of the control's text.
HasInt(ctrl) == \E i \in 2..Len(Tokens(ctrl)) : Tokens(ctrl)[i] = "INT"

(***************************************************************************)
(* C21 (as the specification states it): for every control that the        *)
(* parser returns, of any variant including Select, allow_interrupt() is   *)
(* true exactly when the INT modifier was in the control's text.           *)
(***************************************************************************)
C21_AllowInterruptIffInt ==
    (parse.pc = "done" /\ parse.out.exc = "none") =>
        (Control_allow_interrupt(parse.out) <=> HasInt(parse.ctrl))

(***************************************************************************)
(* Properties of the consumer registry                                     *)
(***************************************************************************)
\* The names of the consumers the latest on_settings_updated created
LatestHandles == {c.name : c \in {x \in consumers : x.gen = updates}}

\* C36: after each completed on_settings_updated the registry
\* listen_device_consumers holds exactly the handles of the consumers created
\* by that call, each once, and none from earlier settings; after
\* on_disconnect it is empty.
C36_RegistryHoldsLatest ==
    \/ listen_device_consumers = <<>> /\ consumers = {}
    \/ /\ Range(listen_device_consumers) = LatestHandles
       /\ Len(listen_device_consumers) = Cardinality(LatestHandles)

(***************************************************************************)
(* Displacement of the actuator over a run, from the driver calls.  One    *)
(* unit per Move: a forward execute that ends uninterrupted adds one, an   *)
(* execute with reverse=true takes one away, and the forward execute that  *)
(* is interrupted inside drive undoes its own partial displacement         *)
(* (actuator.py lines 269-272) and adds nothing.                           *)
(***************************************************************************)
\* Programs of SEL, WAIT and interruptible MV controls
Interruptible(p) ==
    \A i \in 1..Len(p) : p[i].op \in {"SEL", "WAIT", "MV"} /\ (p[i].op = "MV" => p[i].int)

\* The call that was inside drive when the first interrupt was accepted
\* (0: the interrupt was accepted in a wait or between two controls)
CutCall == IF intMark.pc = "exec" /\ prog[intMark.k].op = "MV" THEN intMark.at ELSE 0

NetDisplacement(d) ==
    Cardinality({n \in 1..Len(calls) :
                    calls[n].op = "MV" /\ calls[n].dev = d /\ ~calls[n].rev /\ n # CutCall})
    - Cardinality({n \in 1..Len(calls) : calls[n].op = "MV" /\ calls[n].dev = d /\ calls[n].rev})

\* The displacement of the uninterrupted run: the moves of the program sent to d
PlainDisplacement(d) ==
    Cardinality({i \in 1..Len(prog) : prog[i].op = "MV" /\ SelBefore(prog, i) = d})

\* C33: for a program of SEL, WAIT and interruptible MV controls and a single
\* accepted interrupt, the net displacement of the actuator when Robotics.run
\* returns equals that of the uninterrupted run.
C33_InterruptKeepsDisplacement ==
    (rpc = "done" /\ intCount = 1 /\ Interruptible(prog)) =>
        NetDisplacement("A0") = PlainDisplacement("A0")

\* C38: when no Robotics.run is in progress, after a run that completed or
\* ended with an exception, the controller is idle: active_device is none,
\* allow_interrupt and interrupted are false, and interrupt() returns false.
C38_IdleOutsideRun ==
    (rpc \in {"done", "error"}) =>
        /\ active_device = NoDev
        /\ ~allow_interrupt
        /\ ~interrupted
        /\ ~InterruptAccepted(active_device, allow_interrupt)

(***************************************************************************)
(* Properties of the sentry                                                *)
(***************************************************************************)
\* C29: the first heartbeat of a device creates its record; a device silent
\* for more than 5 x its heartbeat interval is alerted as died at the sixth
\* missed interval, so that no completed pass of check_heartbeats leaves a
\* record older than 5 intervals; the alert is raised once: its pass ends
\* and removes the record, and a later heartbeat registers the device again.
C29_DiedAfterFiveIntervals ==
    /\ sen.online # "" =>
          /\ sen.online \in DOMAIN sen.device_pool
          /\ sen.device_pool[sen.online] = Device(sen.online, HbInterval, sen.now)
    /\ (sen.pc = "idle" /\ sen.checked) =>
          \A d \in DOMAIN sen.device_pool : ~has_expired(sen.device_pool[d], sen.now, 5)
    /\ sen.raised.device_id # "" =>
          /\ sen.raised.age = 6 * HbInterval
          /\ sen.pc # "crashed"
          /\ sen.pc = "idle" => sen.raised.device_id \notin DOMAIN sen.device_pool

(***************************************************************************)
(* Properties of the settings schema                                       *)
(***************************************************************************)
\* The settings class registered for each supported type
Registered ==
    [t \in {DeviceType.MOTION, DeviceType.RANGE, DeviceType.RELAY} |->
        CASE t = DeviceType.MOTION -> <<"sensors.MotionSensor">>
          [] t = DeviceType.RANGE -> <<"sensors.RangeTrigger">>
          [] t = DeviceType.RELAY -> <<"Relay">>]

\* The dot-separated namespaces of a device id
Namespaces(device_id) == SplitDots(device_id, 1, <<>>, <<>>)

\* C30: get_device_type_from_id raises InvalidDeviceId for an id of fewer
\* than two namespaces and otherwise returns the first namespace (stripped,
\* in lower case) as the device type; get_device_settings_class returns the
\* class registered for a supported type and raises UnsupportedDeviceType,
\* and nothing else, for any other type string.
C30_TypeAndSettingsClass ==
    /\ (dev.pc = "done" /\ dev.fn = "get_device_type_from_id") =>
          IF Len(Namespaces(dev.arg)) < 2
          THEN dev.out.exc = "InvalidDeviceId"
          ELSE dev.out = Returned(lower(strip(Namespaces(dev.arg)[1])))
    /\ (dev.pc = "done" /\ dev.fn = "get_device_settings_class") =>
          IF dev.arg \in DOMAIN Registered
          THEN dev.out = Returned(Registered[dev.arg])
          ELSE dev.out.exc = "UnsupportedDeviceType"

(***************************************************************************)
(* Properties of the LED strip and its driver                              *)
(***************************************************************************)
\* The strip operation each effect name stands for
EffectOf ==
    [e \in FX |->
        CASE e = "FADE" -> [op |-> "fade", direction |-> -1]
          [] e = "SWEEP_LEFT" -> [op |-> "slide", direction |-> LEFT]
          [] e = "SWEEP_RIGHT" -> [op |-> "slide", direction |-> RIGHT]
          [] e = "PULSE_LEFT" -> [op |-> "pulse", direction |-> LEFT]
          [] e = "PULSE_RIGHT" -> [op |-> "pulse", direction |-> RIGHT]]

\* C27: for every Fx control whose effect is FADE, SWEEP_LEFT, SWEEP_RIGHT,
\* PULSE_LEFT or PULSE_RIGHT, the driver's execute calls the matching strip
\* operation (fade; slide left / right; pulse left / right) with the
\* control's colour and duration, and raises nothing.
C27_FxDispatchesByEffect ==
    (led.out.op = "execute" /\ led.out.fx \in FX) =>
        /\ led.out.call.exc = "none"
        /\ led.out.call.op = EffectOf[led.out.fx].op
        /\ led.out.call.direction = EffectOf[led.out.fx].direction
        /\ led.out.call.col = led.out.col
        /\ led.out.call.duration = led.out.frames

\* The pixels of the selected scope
Scope == led.segment_start_index..led.segment_end_index

\* C28: with any segment selected, or none, fill, fade and slide complete
\* without error, leave every pixel of the scope at the target colour and
\* change no pixel outside the scope, whatever the start of the segment and
\* the number of intermediate frames.
C28_EffectsStayInScope ==
    led.out.op \in {"fill", "fade", "slide"} =>
        /\ led.out.exc = "none"
        /\ \A i \in Scope : Pixel(led.buf, i) = Stored(led.out.col)
        /\ \A i \in Leds \ Scope : Pixel(led.buf, i) = Pixel(led.out.pre, i)

\* C40: after any sequence of create_segment, select_segment, set_led, fill,
\* fade, slide, pulse and off calls the framing of the buffer is intact: the
\* four start bytes are 0x00, every end-frame byte is 0xFF, the length is
\* unchanged, and the first byte of every pixel is 0b111 followed by a
\* brightness of 0..31.
C40_FramingIntact ==
    /\ DOMAIN led.buf = 0..(BufferLen - 1)
    /\ \A k \in 0..(PAYLOAD_SIZE - 1) : led.buf[k] = 0
    /\ \A k \in (NumLeds * PAYLOAD_SIZE + PAYLOAD_SIZE)..(BufferLen - 1) : led.buf[k] = 255
    /\ \A i \in Leds : led.buf[PAYLOAD_SIZE + i * PAYLOAD_SIZE] \in 224..255
    /\ \A k \in DOMAIN led.buf : led.buf[k] \in 0..255

C40_Witness ==
    /\ led.out.op = "set_led"
    /\ led.out.exc = "none"
    /\ led.out.col \in WildColours
    /\ led.segment_start_index > 0
    /\ led.buf # led.out.pre

=============================================================================
